---------------------------- MODULE Spec2Model ----------------------------
(***************************************************************************)
(* SpatialFeatureDetector (src/unnamed/part_001, lines 840-1314): an       *)
(* RBush-backed index over OpenLayers features with synchronous and        *)
(* debounced hit detection.                                                *)
(*                                                                         *)
(* Numbers.  Coordinates, tolerances and view resolutions are integers on  *)
(* a grid whose step is half a map unit (0.5 is the finest value the       *)
(* scenarios of the specification use).  Bounding boxes are kept in units  *)
(* of 0.0001 map unit, the absolute floor of the segment padding, so that  *)
(* the padding max(0.1*w, 0.1*h, 0.0001) is an integer.  A distance is the *)
(* pair <<n, d>> standing for sqrt(n/d): Math.sqrt is monotone, so         *)
(* comparing distances is comparing the rationals n/d.  Arithmetic is      *)
(* exact; the rounding of IEEE doubles is not modelled.                    *)
(***************************************************************************)
EXTENDS Integers, Sequences, FiniteSets, TLC

\* ------------------------------------------------------------------------
\* Small arithmetic helpers (Math.min / Math.max / Math.abs)
\* ------------------------------------------------------------------------
Min2(a, b) == IF a <= b THEN a ELSE b

Max2(a, b) == IF a >= b THEN a ELSE b

Abs(a) == IF a < 0 THEN -a ELSE a

RECURSIVE Gcd(_, _)
Gcd(a, b) == IF b = 0 THEN a ELSE Gcd(b, a % b)

\* Box units per grid step: 10000 box units per map unit, 2 grid steps per
\* map unit.
BoxPerGrid == 10000 \div 2

\* The absolute floor 0.0001 of the padding (line 945), in box units.
PaddingFloor == 1

\* ------------------------------------------------------------------------
\* Distances: <<n, d>> with d > 0 stands for sqrt(n / d) grid steps
\* ------------------------------------------------------------------------
\* Reduce the fraction (keeps the integers small; the value is unchanged).
Norm(q) ==
    LET g == Gcd(Abs(q[1]), q[2])
    IN  IF g = 0 THEN q ELSE <<q[1] \div g, q[2] \div g>>

\* Math.sqrt(dx * dx + dy * dy)
Hypot(dx, dy) == <<dx * dx + dy * dy, 1>>

DistLess(a, b) == a[1] * b[2] < b[1] * a[2]

DistLeq(a, b) == a[1] * b[2] <= b[1] * a[2]

DistMin(a, b) == IF DistLess(b, a) THEN b ELSE a

IsZero(a) == a[1] = 0

\* (mutant) `distance < tolerance`
WithinToleranceStrict(dist, tolerance) ==
    /\ tolerance > 0
    /\ dist[1] < tolerance * tolerance * dist[2]

\* `distance <= tolerance` (line 1099): a distance is never negative
WithinTolerance(dist, tolerance) ==
    /\ tolerance >= 0
    /\ dist[1] <= tolerance * tolerance * dist[2]

\* ------------------------------------------------------------------------
\* Geometries (ol/geom): a record [type, coords].  "none" is a feature
\* whose getGeometry() is undefined; "Other" is any geometry that is neither
\* Point, LineString nor Polygon and is known by its extent only.  For a
\* Polygon coords is the exterior ring, getLinearRing(0).
\* ------------------------------------------------------------------------
Pt(x, y) == <<x, y>>

NoGeometry == [type |-> "none", coords |-> <<>>]

Point(x, y) == [type |-> "Point", coords |-> <<Pt(x, y)>>]

LineString(cs) == [type |-> "LineString", coords |-> cs]

Polygon(ring) == [type |-> "Polygon", coords |-> ring]

Other(cs) == [type |-> "Other", coords |-> cs]

RECURSIVE MinOver(_, _), MaxOver(_, _)
MinOver(cs, k) ==
    IF Len(cs) = 1 THEN cs[1][k] ELSE Min2(cs[1][k], MinOver(Tail(cs), k))

MaxOver(cs, k) ==
    IF Len(cs) = 1 THEN cs[1][k] ELSE Max2(cs[1][k], MaxOver(Tail(cs), k))

\* geometry.getExtent(): [minX, minY, maxX, maxY], in grid steps
Extent(cs) == <<MinOver(cs, 1), MinOver(cs, 2), MaxOver(cs, 1), MaxOver(cs, 2)>>


\* ------------------------------------------------------------------------
\* Index items (interface IndexItem, lines 844-853).  The box is in box
\* units; seg is <<segmentStart, segmentEnd>> for a segment item and <<>>
\* for a whole-extent item (segmentStart / segmentEnd undefined).
\* ------------------------------------------------------------------------
ExtentItem(feature, cs) ==
    LET e == Extent(cs)
    IN  [feature |-> feature,
         minX |-> e[1] * BoxPerGrid, minY |-> e[2] * BoxPerGrid,
         maxX |-> e[3] * BoxPerGrid, maxY |-> e[4] * BoxPerGrid,
         seg |-> <<>>]

\* One pass of the loop of lines 935-957
SegmentItem(feature, c1, c2) ==
    LET minX == Min2(c1[1], c2[1]) * BoxPerGrid
        maxX == Max2(c1[1], c2[1]) * BoxPerGrid
        minY == Min2(c1[2], c2[2]) * BoxPerGrid
        maxY == Max2(c1[2], c2[2]) * BoxPerGrid
        padding == Max2(Max2((maxX - minX) \div 10, (maxY - minY) \div 10),
                        PaddingFloor)
    IN  [feature |-> feature,
         minX |-> minX - padding, minY |-> minY - padding,
         maxX |-> maxX + padding, maxY |-> maxY + padding,
         seg |-> <<c1, c2>>]

indexLineString(feature, coords) ==
    IF Len(coords) <= 2
    THEN <<ExtentItem(feature, coords)>>
    ELSE [i \in 1..(Len(coords) - 1) |->
              SegmentItem(feature, coords[i], coords[i + 1])]
         \o <<ExtentItem(feature, coords)>>

\* (mutant) the ring's items without the polygon's extent of lines 985-993
indexPolygonRingOnly(feature, ring) == indexLineString(feature, ring)

\* indexPolygon (lines 975-996): the items of the exterior ring, then the
\* polygon's extent
indexPolygon(feature, ring) ==
    indexLineString(feature, ring) \o <<ExtentItem(feature, ring)>>

\* The body of the loop of updateFeatures for a feature that has a geometry
\* (lines 892-907)
indexFeature(feature, geometry) ==
    IF geometry.type = "LineString" THEN indexLineString(feature, geometry.coords)
    ELSE IF geometry.type = "Polygon" THEN indexPolygon(feature, geometry.coords)
    ELSE <<ExtentItem(feature, geometry.coords)>>

\* ------------------------------------------------------------------------
\* RBush (external library) as the detector uses it: new RBush() of line
\* 870, load() of line 911, search() of line 1072, clear() of lines 882 and
\* 1310.  The tree is the sequence of the items of its leaves, leaf after
\* leaf.  load() on a cleared tree keeps up to MaxEntries items in one leaf
\* in the order given; more items (up to MaxEntries * MaxEntries, a tree of
\* height 2) are packed into leaves by the library's bulk load, which
\* reorders them with quickselect.
\* ------------------------------------------------------------------------
EmptyTree == <<>>

\* RBush's default maxEntries, taken by new RBush() of line 870
MaxEntries == 9

\* swap(arr, i, j) of quickselect; positions count from 0 as in the library
swap(arr, i, j) == [arr EXCEPT ![i + 1] = arr[j + 1], ![j + 1] = arr[i + 1]]

\* while (compare(arr[i], t) < 0) i++, c being the compared field
RECURSIVE SkipLess(_, _, _, _)
SkipLess(arr, i, t, c) ==
    IF arr[i + 1][c] < t[c] THEN SkipLess(arr, i + 1, t, c) ELSE i

\* while (compare(arr[j], t) > 0) j--
RECURSIVE SkipGreater(_, _, _, _)
SkipGreater(arr, j, t, c) ==
    IF arr[j + 1][c] > t[c] THEN SkipGreater(arr, j - 1, t, c) ELSE j

\* while (i < j) { swap(arr, i, j); i++; j--; ... } of quickselectStep: the
\* array and j when the loop ends
RECURSIVE Partition(_, _, _, _, _)
Partition(arr, i, j, t, c) ==
    IF i < j
    THEN Partition(swap(arr, i, j),
                   SkipLess(swap(arr, i, j), i + 1, t, c),
                   SkipGreater(swap(arr, i, j), j - 1, t, c), t, c)
    ELSE [arr |-> arr, j |-> j]

RECURSIVE quickselectStep(_, _, _, _, _)
\* if (j <= k) left = j + 1; if (k <= j) right = j - 1; and the next round
Narrowed(arr, k, left, right, j, c) ==
    quickselectStep(arr, k, IF j <= k THEN j + 1 ELSE left,
                    IF k <= j THEN j - 1 ELSE right, c)

\* if (compare(arr[left], t) === 0) swap(arr, left, j);
\* else { j++; swap(arr, j, right); }
Placed(p, k, left, right, t, c) ==
    IF p.arr[left + 1][c] = t[c]
    THEN Narrowed(swap(p.arr, left, p.j), k, left, right, p.j, c)
    ELSE Narrowed(swap(p.arr, p.j + 1, right), k, left, right, p.j + 1, c)

\* if (compare(arr[right], t) > 0) swap(arr, left, right); and the loop,
\* arr being the array after swap(arr, left, k)
Pivoted(arr, k, left, right, t, c) ==
    Placed(Partition(IF arr[right + 1][c] > t[c] THEN swap(arr, left, right) ELSE arr,
                     left, right, t, c),
           k, left, right, t, c)

\* quickselect(arr, k, left, right, compare) for fewer than 600 items, the
\* comparison being compareMinX (c = "minX") or compareMinY (c = "minY")
quickselectStep(arr, k, left, right, c) ==
    IF right > left THEN Pivoted(swap(arr, left, k), k, left, right, arr[k + 1], c)
    ELSE arr

\* mid = left + Math.ceil((right - left) / n / 2) * n
Mid(left, right, n) == left + ((right - left + 2 * n - 1) \div (2 * n)) * n

\* RBush's multiSelect: its stack takes the range mid..right before the
\* range left..mid
RECURSIVE multiSelect(_, _, _, _, _)
multiSelect(arr, left, right, n, c) ==
    IF right - left <= n THEN arr
    ELSE multiSelect(multiSelect(quickselectStep(arr, Mid(left, right, n), left, right, c),
                                 Mid(left, right, n), right, n, c),
                     left, Mid(left, right, n), n, c)

\* M = Math.ceil(N / Math.pow(M, height - 1)) of _build for height 2
RootEntries(N) == (N + MaxEntries - 1) \div MaxEntries

\* N2 = Math.ceil(N / M): the items of a leaf
LeafSize(N) == (N + RootEntries(N) - 1) \div RootEntries(N)

\* N1 = N2 * Math.ceil(Math.sqrt(M)): the items of a vertical slice
SliceSize(N) ==
    LeafSize(N) * (CHOOSE r \in 1..MaxEntries :
                      r * r >= RootEntries(N) /\ (r - 1) * (r - 1) < RootEntries(N))

\* for (i = left; i <= right; i += N1) multiSelect(items, i, right2, N2,
\* compareMinY) of _build
RECURSIVE SelectSlices(_, _)
SelectSlices(arr, i) ==
    IF i > Len(arr) - 1 THEN arr
    ELSE SelectSlices(multiSelect(arr, i, Min2(i + SliceSize(Len(arr)) - 1, Len(arr) - 1),
                                  LeafSize(Len(arr)), "minY"),
                      i + SliceSize(Len(arr)))

\* RBush's _build(items, 0, N - 1, 0) for MaxEntries < N <= MaxEntries *
\* MaxEntries: the items in the order of the leaves, every LeafSize(N) of
\* them a leaf
build(items) ==
    SelectSlices(multiSelect(items, 0, Len(items) - 1, SliceSize(Len(items)), "minX"), 0)

\* this.tree.load(items) on the tree cleared at line 882: fewer than 4
\* items are inserted one by one into the empty leaf, up to MaxEntries make
\* one leaf as given, more are bulk loaded
TreeLoad(items) == IF Len(items) <= MaxEntries THEN items ELSE build(items)

\* The leaves of a tree, in the order of the root's children
Leaves(tree) ==
    IF Len(tree) <= MaxEntries THEN <<tree>>
    ELSE [n \in 1..((Len(tree) + LeafSize(Len(tree)) - 1) \div LeafSize(Len(tree))) |->
             SubSeq(tree, (n - 1) * LeafSize(Len(tree)) + 1,
                    Min2(n * LeafSize(Len(tree)), Len(tree)))]

\* RBush's calcBBox of a leaf
calcBBox(leaf) ==
    [minX |-> CHOOSE v \in {leaf[i].minX : i \in 1..Len(leaf)} :
                  \A i \in 1..Len(leaf) : v <= leaf[i].minX,
     minY |-> CHOOSE v \in {leaf[i].minY : i \in 1..Len(leaf)} :
                  \A i \in 1..Len(leaf) : v <= leaf[i].minY,
     maxX |-> CHOOSE v \in {leaf[i].maxX : i \in 1..Len(leaf)} :
                  \A i \in 1..Len(leaf) : v >= leaf[i].maxX,
     maxY |-> CHOOSE v \in {leaf[i].maxY : i \in 1..Len(leaf)} :
                  \A i \in 1..Len(leaf) : v >= leaf[i].maxY]

\* (mutant) boxes that only touch do not intersect
IntersectsStrict(bbox, item) ==
    /\ item.minX < bbox.maxX
    /\ item.minY < bbox.maxY
    /\ item.maxX > bbox.minX
    /\ item.maxY > bbox.minY

\* RBush's intersects(a, b): boxes that touch do intersect
Intersects(bbox, item) ==
    /\ item.minX <= bbox.maxX
    /\ item.minY <= bbox.maxY
    /\ item.maxX >= bbox.minX
    /\ item.maxY >= bbox.minY

\* RBush's contains(a, b)
contains(a, b) ==
    /\ a.minX <= b.minX
    /\ a.minY <= b.minY
    /\ b.maxX <= a.maxX
    /\ b.maxY <= a.maxY

\* The loop of search() over the children of a leaf
RECURSIVE SearchLeaf(_, _)
SearchLeaf(leaf, bbox) ==
    IF leaf = <<>> THEN <<>>
    ELSE IF Intersects(bbox, Head(leaf))
         THEN <<Head(leaf)>> \o SearchLeaf(Tail(leaf), bbox)
         ELSE SearchLeaf(Tail(leaf), bbox)

\* node = nodesToSearch.pop() of search(): the leaf pushed last is
\* searched first
RECURSIVE SearchStack(_, _, _)
SearchStack(stack, bbox, result) ==
    IF stack = <<>> THEN result
    ELSE SearchStack(SubSeq(stack, 1, Len(stack) - 1), bbox,
                     result \o SearchLeaf(stack[Len(stack)], bbox))

\* The loop of search() over the children of the root: a leaf inside the
\* box gives all its items at once (_all), a leaf that only intersects it
\* waits on the stack
RECURSIVE SearchChildren(_, _, _, _, _)
SearchChildren(leaves, i, bbox, result, stack) ==
    IF i > Len(leaves) THEN SearchStack(stack, bbox, result)
    ELSE IF ~Intersects(bbox, calcBBox(leaves[i]))
         THEN SearchChildren(leaves, i + 1, bbox, result, stack)
    ELSE IF contains(bbox, calcBBox(leaves[i]))
         THEN SearchChildren(leaves, i + 1, bbox, result \o leaves[i], stack)
    ELSE SearchChildren(leaves, i + 1, bbox, result, Append(stack, leaves[i]))

\* this.tree.search(bbox): the items whose box intersects bbox, in the
\* order the library finds them
TreeSearch(tree, bbox) ==
    IF Len(tree) <= MaxEntries THEN SearchLeaf(tree, bbox)
    ELSE SearchChildren(Leaves(tree), 1, bbox, <<>>, <<>>)

\* ------------------------------------------------------------------------
\* The features the caller owns.  A feature is known by its identity (a
\* number); Geometry gives feature.getGeometry().
\* ------------------------------------------------------------------------
Geometry(f) ==
    CASE f = 1 -> Point(0, 0)
      [] f = 2 -> LineString(<<Pt(0, 2), Pt(4, 2), Pt(4, 0)>>)
      [] f = 3 -> NoGeometry
      [] f = 4 -> Polygon(<<Pt(2, 0), Pt(6, 0), Pt(6, 4), Pt(2, 0)>>)
      [] f = 5 -> LineString(<<Pt(2, 4), Pt(6, 4)>>)
      [] f = 6 -> Other(<<Pt(0, 4), Pt(2, 6)>>)
      [] f = 7 -> LineString(<<Pt(20, 0), Pt(20, 20)>>)

Features == {1, 2, 3, 4, 5, 6}

\* ------------------------------------------------------------------------
\* Exact distances (lines 1167-1289)
\* ------------------------------------------------------------------------
Infinity == <<1, 0>>

\* sqrt(pdx * pdx + pdy * pdy) (lines 1285-1288) for point - proj =
\* (px, py) / den, the common factor g taken out first
ReducedDistance(px, py, den, g) ==
    Norm(<<(px \div g) * (px \div g) + (py \div g) * (py \div g),
           (den \div g) * (den \div g)>>)

PerpendicularDistance(px, py, den) ==
    ReducedDistance(px, py, den, Gcd(Gcd(Abs(px), Abs(py)), den))

\* (mutant) lines 1269-1288 without the clamp of line 1277: the distance to
\* the line through the segment
ClampedDistanceUnclamped(ax, ay, bx, by, dx, dy, num, den) ==
    IF dx = 0 /\ dy = 0 THEN Hypot(ax, ay)
    ELSE PerpendicularDistance(ax * den - num * dx, ay * den - num * dy, den)

\* Lines 1269-1288 with a = point - segStart, b = point - segEnd,
\* d = segEnd - segStart and t = num / den before the clamp of line 1277
ClampedDistance(ax, ay, bx, by, dx, dy, num, den) ==
    IF dx = 0 /\ dy = 0 THEN Hypot(ax, ay)
    ELSE IF num <= 0 THEN Hypot(ax, ay)                          \* t = 0
    ELSE IF num >= den THEN Hypot(bx, by)                        \* t = 1
    ELSE \* 0 < t < 1; point - proj = (a * den - num * d) / den
         PerpendicularDistance(ax * den - num * dx, ay * den - num * dy, den)

getDistanceToSegment(point, segStart, segEnd) ==
    LET dx == segEnd[1] - segStart[1]
        dy == segEnd[2] - segStart[2]
        ax == point[1] - segStart[1]
        ay == point[2] - segStart[2]
    IN  ClampedDistance(ax, ay, point[1] - segEnd[1], point[2] - segEnd[2],
                        dx, dy, ax * dx + ay * dy, dx * dx + dy * dy)

getDistanceToPoint(coordinate, pointCoord) ==
    Hypot(coordinate[1] - pointCoord[1], coordinate[2] - pointCoord[2])

\* First loop of getDistanceToLineString (lines 1217-1227): the running
\* minimum over the segments from i on, with the early exit at 0
RECURSIVE SegmentsMin(_, _, _, _)
\* Line 1226 after segment i, then the rest of the loop
SegmentsNext(coordinate, coords, i, minDistance) ==
    IF IsZero(minDistance) THEN minDistance
    ELSE SegmentsMin(coordinate, coords, i + 1, minDistance)

SegmentsMin(coordinate, coords, i, minDistance) ==
    IF i > Len(coords) - 1 THEN minDistance
    ELSE SegmentsNext(coordinate, coords, i,
             DistMin(minDistance,
                     getDistanceToSegment(coordinate, coords[i], coords[i + 1])))

\* Second loop (lines 1230-1235): the vertices
RECURSIVE VerticesMin(_, _, _, _)
VerticesMin(coordinate, coords, i, minDistance) ==
    IF i > Len(coords) THEN minDistance
    ELSE VerticesMin(coordinate, coords, i + 1,
                     DistMin(minDistance, getDistanceToPoint(coordinate, coords[i])))

\* What follows the first loop: 0 was returned at line 1226, or the
\* vertices are checked
VerticesAfter(coordinate, coords, minDistance) ==
    IF IsZero(minDistance) THEN minDistance
    ELSE VerticesMin(coordinate, coords, 1, minDistance)

getDistanceToLineString(coordinate, coords) ==
    VerticesAfter(coordinate, coords, SegmentsMin(coordinate, coords, 1, Infinity))

\* ol/geom/flat/contains linearRingContainsXY, behind
\* polygon.intersectsCoordinate: the winding number of the ring around the
\* coordinate.  wn is the count so far, i the vertex the edge ends at.
RECURSIVE WindingNumber(_, _, _, _)
WindingNumber(ring, coordinate, i, wn) ==
    IF i > Len(ring) THEN wn
    ELSE LET a == IF i = 1 THEN ring[Len(ring)] ELSE ring[i - 1]
             b == ring[i]
             x == coordinate[1]
             y == coordinate[2]
             side == (b[1] - a[1]) * (y - a[2]) - (x - a[1]) * (b[2] - a[2])
             step == IF a[2] <= y
                     THEN (IF b[2] > y /\ side > 0 THEN 1 ELSE 0)
                     ELSE (IF b[2] <= y /\ side < 0 THEN -1 ELSE 0)
         IN  WindingNumber(ring, coordinate, i + 1, wn + step)

\* (mutant) no coordinate is inside the polygon
intersectsCoordinateNever(ring, coordinate) == FALSE

intersectsCoordinate(ring, coordinate) ==
    WindingNumber(ring, coordinate, 1, 0) # 0

getDistanceToPolygon(coordinate, ring) ==
    IF intersectsCoordinate(ring, coordinate) THEN <<0, 1>>
    ELSE getDistanceToLineString(coordinate, ring)

\* Lines 1183-1193: a geometry of another type, by its extent
getDistanceToExtent(coordinate, extent) ==
    LET x == coordinate[1]
        y == coordinate[2]
        dx == Max2(Max2(extent[1] - x, 0), x - extent[3])
        dy == Max2(Max2(extent[2] - y, 0), y - extent[4])
    IN  IF x >= extent[1] /\ x <= extent[3] /\ y >= extent[2] /\ y <= extent[4]
        THEN <<0, 1>>
        ELSE Hypot(dx, dy)

getDistanceToFeature(coordinate, feature) ==
    LET geometry == Geometry(feature)
    IN  IF geometry.type = "none" THEN Infinity
        ELSE IF geometry.type = "Point"
             THEN getDistanceToPoint(coordinate, geometry.coords[1])
        ELSE IF geometry.type = "LineString"
             THEN getDistanceToLineString(coordinate, geometry.coords)
        ELSE IF geometry.type = "Polygon"
             THEN getDistanceToPolygon(coordinate, geometry.coords)
        ELSE getDistanceToExtent(coordinate, Extent(geometry.coords))

\* ------------------------------------------------------------------------
\* detectFeaturesAtCoordinate (lines 1062-1112)
\* ------------------------------------------------------------------------
\* Lines 1085-1097: the distance of one candidate
CandidateDistance(coordinate, candidate) ==
    IF candidate.seg # <<>>
    THEN getDistanceToSegment(coordinate, candidate.seg[1], candidate.seg[2])
    ELSE getDistanceToFeature(coordinate, candidate.feature)

RECURSIVE ScanCandidates(_, _, _, _, _)
\* Lines 1099-1105 for the first candidate left, at its distance, then the
\* rest of the loop
ScanCandidate(candidates, coordinate, tolerance, seen, hits, distance) ==
    IF WithinTolerance(distance, tolerance) /\ Head(candidates).feature \notin seen
    THEN ScanCandidates(Tail(candidates), coordinate, tolerance,
                        seen \cup {Head(candidates).feature},
                        Append(hits, [feature |-> Head(candidates).feature,
                                      distance |-> distance]))
    ELSE ScanCandidates(Tail(candidates), coordinate, tolerance, seen, hits)

\* (mutant) the loop without the test of line 1082 and of line 1101
RECURSIVE ScanCandidatesUnseen(_, _, _, _, _)
ScanCandidatesUnseen(candidates, coordinate, tolerance, seen, hits) ==
    IF candidates = <<>> THEN hits
    ELSE LET candidate == Head(candidates)
             rest == Tail(candidates)
             distance == CandidateDistance(coordinate, candidate)
         IN  IF WithinTolerance(distance, tolerance)
             THEN ScanCandidatesUnseen(rest, coordinate, tolerance,
                      seen \cup {candidate.feature},
                      Append(hits, [feature |-> candidate.feature,
                                    distance |-> distance]))
             ELSE ScanCandidatesUnseen(rest, coordinate, tolerance, seen, hits)

\* (mutant) the loop keeping, for a feature seen already, the least distance
\* of its candidates
RECURSIVE ScanCandidatesMinimising(_, _, _, _, _)
ScanCandidatesMinimising(candidates, coordinate, tolerance, seen, hits) ==
    IF candidates = <<>> THEN hits
    ELSE LET candidate == Head(candidates)
             rest == Tail(candidates)
             distance == CandidateDistance(coordinate, candidate)
         IN  IF ~WithinTolerance(distance, tolerance)
             THEN ScanCandidatesMinimising(rest, coordinate, tolerance, seen, hits)
             ELSE IF candidate.feature \in seen
             THEN ScanCandidatesMinimising(rest, coordinate, tolerance, seen,
                      [i \in 1..Len(hits) |->
                          IF hits[i].feature = candidate.feature
                          THEN [hits[i] EXCEPT !.distance = DistMin(@, distance)]
                          ELSE hits[i]])
             ELSE ScanCandidatesMinimising(rest, coordinate, tolerance,
                      seen \cup {candidate.feature},
                      Append(hits, [feature |-> candidate.feature,
                                    distance |-> distance]))

\* The loop of lines 1080-1106 over the candidates left, with the set `seen`
\* and the array `hits` built so far
ScanCandidates(candidates, coordinate, tolerance, seen, hits) ==
    IF candidates = <<>> THEN hits
    ELSE IF Head(candidates).feature \in seen                    \* line 1082
         THEN ScanCandidates(Tail(candidates), coordinate, tolerance, seen, hits)
         ELSE ScanCandidate(candidates, coordinate, tolerance, seen, hits,
                            CandidateDistance(coordinate, Head(candidates)))

\* hits.sort((a, b) => a.distance - b.distance): Array.prototype.sort is
\* stable, so equal distances keep their scan order
RECURSIVE InsertByDistance(_, _)
InsertByDistance(sorted, hit) ==
    IF sorted = <<>> THEN <<hit>>
    ELSE IF DistLess(hit.distance, Head(sorted).distance)
         THEN <<hit>> \o sorted
         ELSE <<Head(sorted)>> \o InsertByDistance(Tail(sorted), hit)

RECURSIVE SortByDistance(_)
SortByDistance(hits) ==
    IF hits = <<>> THEN <<>>
    ELSE InsertByDistance(SortByDistance(SubSeq(hits, 1, Len(hits) - 1)),
                          hits[Len(hits)])

\* (mutant) the query box without the tolerance
QueryBoxNoTolerance(coordinate, tolerance) ==
    [minX |-> coordinate[1] * BoxPerGrid, minY |-> coordinate[2] * BoxPerGrid,
     maxX |-> coordinate[1] * BoxPerGrid, maxY |-> coordinate[2] * BoxPerGrid]

\* Lines 1069-1074: the query box, in box units
QueryBox(coordinate, tolerance) ==
    [minX |-> (coordinate[1] - tolerance) * BoxPerGrid,
     minY |-> (coordinate[2] - tolerance) * BoxPerGrid,
     maxX |-> (coordinate[1] + tolerance) * BoxPerGrid,
     maxY |-> (coordinate[2] + tolerance) * BoxPerGrid]

\* The sorted hits, each with the distance it is ranked by
detectHits(tree, coordinate, tolerance) ==
    SortByDistance(ScanCandidates(TreeSearch(tree, QueryBox(coordinate, tolerance)),
                                  coordinate, tolerance, {}, <<>>))

\* .map(hit => hit.feature) (line 1111)
FeaturesOf(hits) == [i \in 1..Len(hits) |-> hits[i].feature]

detectFeaturesAtCoordinate(tree, coordinate, tolerance) ==
    FeaturesOf(detectHits(tree, coordinate, tolerance))

\* ------------------------------------------------------------------------
\* The view (ol/Map, external): map.getCoordinateFromPixel(pixel) and
\* map.getView().getResolution().  A view is [origin, resolution]: the
\* coordinate of pixel (0,0) and the grid steps per pixel; pixel rows grow
\* downwards.
\* ------------------------------------------------------------------------
getCoordinateFromPixel(view, pixel) ==
    Pt(view.origin[1] + pixel[1] * view.resolution,
       view.origin[2] - pixel[2] * view.resolution)

\* An optional field of an options object: <<>> when omitted, <<v>> when set
Given(opt) == opt # <<>>

\* options.hitTolerance || 0 (line 1015): an omitted and a zero tolerance
\* are both 0
HitToleranceOf(hitTolerance) ==
    IF Given(hitTolerance) /\ hitTolerance[1] # 0 THEN hitTolerance[1] ELSE 0

\* (mutant) the pixel tolerance taken as a map tolerance, without the
\* resolution of line 1015
detectFeaturesAtPixelUnscaled(tree, view, pixel, hitTolerance) ==
    detectFeaturesAtCoordinate(tree, getCoordinateFromPixel(view, pixel),
                               HitToleranceOf(hitTolerance))

\* detectFeaturesAtPixel (lines 1005-1018)
detectFeaturesAtPixel(tree, view, pixel, hitTolerance) ==
    LET coordinate == getCoordinateFromPixel(view, pixel)
        resolution == view.resolution
        tolerance == HitToleranceOf(hitTolerance) * resolution
    IN  detectFeaturesAtCoordinate(tree, coordinate, tolerance)

\* getFeatureAtPixel (lines 1121-1128): features[0], <<>> for undefined
FirstOf(features) == IF features = <<>> THEN <<>> ELSE <<features[1]>>

getFeatureAtPixel(tree, view, pixel, hitTolerance) ==
    FirstOf(detectFeaturesAtPixel(tree, view, pixel, hitTolerance))

\* ------------------------------------------------------------------------
\* updateFeatures (lines 880-912)
\* ------------------------------------------------------------------------
\* The loop of lines 886-908 from the i-th feature on, with the items pushed
\* so far; threw when a feature without geometry stopped it (line 889)
\* (mutant) the loop with `continue` in place of the throw of line 889
RECURSIVE BuildItemsSkipping(_, _, _)
BuildItemsSkipping(fs, i, items) ==
    IF i > Len(fs) THEN [threw |-> FALSE, items |-> items]
    ELSE IF Geometry(fs[i]).type = "none" THEN BuildItemsSkipping(fs, i + 1, items)
    ELSE BuildItemsSkipping(fs, i + 1, items \o indexFeature(fs[i], Geometry(fs[i])))

RECURSIVE BuildItems(_, _, _)
BuildItems(fs, i, items) ==
    IF i > Len(fs) THEN [threw |-> FALSE, items |-> items]
    ELSE IF Geometry(fs[i]).type = "none" THEN [threw |-> TRUE, items |-> items]
    ELSE BuildItems(fs, i + 1, items \o indexFeature(fs[i], Geometry(fs[i])))

\* (mutant) updateFeatures refusing an empty sequence
updateFeaturesRejectingEmpty(fs) ==
    [features |-> fs,
     tree |-> IF fs = <<>> \/ BuildItems(fs, 1, <<>>).threw THEN EmptyTree
              ELSE TreeLoad(BuildItems(fs, 1, <<>>).items),
     threw |-> fs = <<>> \/ BuildItems(fs, 1, <<>>).threw]

\* The detector's features and tree after updateFeatures(fs), and whether
\* the call threw: line 881 and line 882 run before the loop, line 911 only
\* when the loop ends normally
updateFeatures(fs) ==
    LET built == BuildItems(fs, 1, <<>>)
    IN  [features |-> fs,
         tree |-> IF built.threw THEN EmptyTree
                  ELSE TreeLoad(built.items),
         threw |-> built.threw]

\* ------------------------------------------------------------------------
\* Bounds and inputs
\* ------------------------------------------------------------------------
\* Longest feature sequence given to the constructor or to updateFeatures
MaxFeatures == 2

\* Number of setTimeout calls in one run
MaxTimers == 3

\* All sequences over S of length at most n
RECURSIVE SeqsUpTo(_, _)
SeqsUpTo(S, n) ==
    IF n = 0 THEN {<<>>}
    ELSE LET shorter == SeqsUpTo(S, n - 1)
         IN  shorter \cup {Append(q, x) : q \in shorter, x \in S}

\* Feature sequences of the index specification: every feature of the pool
FeatureSeqs == SeqsUpTo(Features, MaxFeatures)

\* Feature sequences of the detector specification: none, and a line before
\* a point; the other sequences, with a feature without geometry among
\* them, are those of the index specification
DetectorFeatureSeqs == {<<>>, <<2, 1>>}

\* Query coordinates and tolerances (grid steps) of the index specification
Coordinates == {Pt(x, y) : x \in 0..4, y \in 0..4}

Tolerances == {0, 1, 2}

\* The scenario of a point at (0,0) and a line from (10,0) to (10,10), in
\* grid steps: the point is feature 1, the line feature 7
ScenarioFeatureSeqs == {<<1, 7>>, <<7, 1>>}

ScenarioCoordinates == {Pt(x, y) : x \in {0, 10, 19, 20, 21}, y \in {0, 1, 10, 20, 21}}

\* Pixels and hitTolerance options of the pixel queries
Pixels == {Pt(0, 4), Pt(2, 1), Pt(1, 2), Pt(2, 2)}

HitTolerances == {<<>>, <<0>>, <<1>>, <<2>>}

\* The queries made while debounced queries are pending
FrameCoordinates == {Pt(4, 1)}

FramePixels == {Pt(0, 4), Pt(2, 1)}

FrameHitTolerances == {<<>>, <<1>>}

\* The points and segment ends of the segment specification, in grid steps
SegmentCoordinates == {Pt(x, y) : x \in 0..3, y \in 0..3}

\* Views, pixels and options of the detector specification
Views == {[origin |-> Pt(0, 4), resolution |-> 1],
          [origin |-> Pt(0, 4), resolution |-> 2]}

\* The debounced calls the application makes: the pixel, the options object
\* (an omitted field is <<>>) and whether the call goes through
\* getFeatureAtPixelDebounced.  Two calls share the default key with
\* different pixels, tolerances and delays; two share the key 'hover'.
NoOptions == [hitTolerance |-> <<>>, debounceDelay |-> <<>>, debounceKey |-> <<>>]

DebouncedCalls ==
    {[pixel |-> Pt(0, 4), options |-> NoOptions, first |-> FALSE],
     [pixel |-> Pt(2, 1), first |-> FALSE,
      options |-> [hitTolerance |-> <<1>>, debounceDelay |-> <<0>>, debounceKey |-> <<"">>]],
     [pixel |-> Pt(2, 1), first |-> TRUE,
      options |-> [hitTolerance |-> <<1>>, debounceDelay |-> <<0>>, debounceKey |-> <<"hover">>]],
     [pixel |-> Pt(0, 4), first |-> TRUE,
      options |-> [hitTolerance |-> <<>>, debounceDelay |-> <<>>, debounceKey |-> <<"hover">>]]}

\* The keys the timer map can hold with these options
Keys == {"default", "hover"}

\* Debounced calls that differ in the option debounceKey only: omitted, the
\* empty string, the literal 'default' and 'hover'
KeyCalls ==
    {[pixel |-> Pt(0, 4), first |-> FALSE,
      options |-> [hitTolerance |-> <<>>, debounceDelay |-> <<>>, debounceKey |-> k]] :
        k \in {<<>>, <<"">>, <<"default">>, <<"hover">>}}

\* ------------------------------------------------------------------------
\* State
\* ------------------------------------------------------------------------
VARIABLES
    features,        \* this.features
    tree,            \* this.tree
    debounceTimers,  \* this.debounceTimers: key -> timer handle
    timers,          \* the host's pending timeouts: handle -> closure
    nextTimer,       \* the handle the next setTimeout returns
    view,            \* the map's view
    ret,             \* what the last operation did and gave back
    calls,           \* per pending timeout, the debounced call that set it
    quiet,           \* per key, the time left until the debounceDelay of the
                     \* detector's most recent debounced call for the key has
                     \* elapsed
    other,           \* a second detector instance, once it is constructed
    map,             \* the map the queries are given: "live" or "disposed"
    tester           \* the tester component around the detector, if there is one

vars == <<features, tree, debounceTimers, timers, nextTimer, view, ret, calls, quiet,
          other, map, tester>>

\* Map.set / Map.delete / Map.get on a map kept as a function
MapSet(m, k, v) == [x \in (DOMAIN m) \cup {k} |-> IF x = k THEN v ELSE m[x]]

MapDelete(m, k) == [x \in (DOMAIN m) \ {k} |-> m[x]]

EmptyMap == <<>>

\* debounceDelay ?? 50 (line 1038)
DefaultDelay == 50

DelayOf(debounceDelay) ==
    IF Given(debounceDelay) THEN debounceDelay[1] ELSE DefaultDelay

\* (mutant) every call shares one timer, whatever its debounceKey
KeyIgnored(debounceKey) == "default"

\* debounceKey || 'default' (line 1037): an omitted and an empty key are
\* both 'default'
KeyOf(debounceKey) ==
    IF Given(debounceKey) /\ debounceKey[1] # "" THEN debounceKey[1] ELSE "default"

\* What an operation of the detector works on: its timer map and its tree
\* (`this`), the host's timeouts, and of these the ones its own calls set
\* (own), to which alone its notes on calls apply
TimerState ==
    [debounceTimers |-> debounceTimers, timers |-> timers,
     nextTimer |-> nextTimer, calls |-> calls, quiet |-> quiet,
     own |-> (DOMAIN timers) \ other.handles, tree |-> tree]

\* detectFeaturesAtPixelDebounced (lines 1027-1054) on timer state s.  first
\* is TRUE when the call comes through getFeatureAtPixelDebounced (lines
\* 1137-1153), whose callback takes features[0].
detectFeaturesAtPixelDebounced(s, pixel, options, first) ==
    LET key == KeyOf(options.debounceKey)
        delay == DelayOf(options.debounceDelay)
        \* lines 1041-1044: clearTimeout of the timer the map holds for the
        \* key; a handle that has fired already is ignored by the host
        hasExisting == key \in DOMAIN s.debounceTimers
        cleared == IF hasExisting THEN MapDelete(s.timers, s.debounceTimers[key])
                   ELSE s.timers
        \* lines 1047-1051: setTimeout; the closure keeps key, pixel, options
        timer == s.nextTimer
        closure == [key |-> key, pixel |-> pixel,
                    hitTolerance |-> options.hitTolerance,
                    first |-> first, remaining |-> delay]
        \* the calls behind the timeouts still pending: one of this detector
        \* whose delay has not elapsed at this call for the same key is
        \* superseded
        kept == [t \in DOMAIN cleared |->
                    IF t \in s.own /\ s.timers[t].key = key /\ s.timers[t].remaining > 0
                    THEN [s.calls[t] EXCEPT !.superseded = TRUE]
                    ELSE s.calls[t]]
        sync == detectFeaturesAtPixel(s.tree, view, pixel, options.hitTolerance)
        call == [pixel |-> pixel, hitTolerance |-> options.hitTolerance,
                 debounceKey |-> options.debounceKey,
                 first |-> first,
                 atCall |-> IF first THEN FirstOf(sync) ELSE sync,
                 superseded |-> FALSE, cleared |-> FALSE]
    IN  [debounceTimers |-> MapSet(s.debounceTimers, key, timer),   \* line 1053
         timers |-> MapSet(cleared, timer, closure),
         nextTimer |-> timer + 1,
         calls |-> MapSet(kept, timer, call),
         quiet |-> [s.quiet EXCEPT ![key] = delay],
         own |-> s.own \cup {timer},
         tree |-> s.tree]

\* clearDebounceTimers (lines 1159-1162) on timer state s: clearTimeout of
\* every handle the map holds, then the map is emptied
clearDebounceTimers(s) ==
    LET held == {s.debounceTimers[k] : k \in DOMAIN s.debounceTimers}
        left == (DOMAIN s.timers) \ held
    IN  [debounceTimers |-> EmptyMap,
         timers |-> [t \in left |-> s.timers[t]],
         nextTimer |-> s.nextTimer,
         calls |-> [t \in left |-> IF t \in s.own
                                   THEN [s.calls[t] EXCEPT !.cleared = TRUE]
                                   ELSE s.calls[t]],
         quiet |-> s.quiet,
         own |-> s.own,
         tree |-> s.tree]

\* (mutant) the detection without the options of the call
TimeoutValueNoOptions(closure) ==
    LET detected == detectFeaturesAtPixel(tree, view, closure.pixel, <<>>)
    IN  IF closure.first THEN FirstOf(detected) ELSE detected

\* What the timeout's arrow function computes and hands to the callback
\* (lines 1048-1049, and line 1150 for getFeatureAtPixelDebounced)
TimeoutValue(closure) ==
    LET detected == detectFeaturesAtPixel(tree, view, closure.pixel,
                                          closure.hitTolerance)
    IN  IF closure.first THEN FirstOf(detected) ELSE detected

\* What a callback can do: return, throw, or issue a debounced call itself
Callbacks ==
    {[kind |-> k, call |-> CHOOSE c \in DebouncedCalls : TRUE] : k \in {"return", "throw"}}
    \cup {[kind |-> "debounce", call |-> c] : c \in DebouncedCalls}

\* The timeout of handle t fires (lines 1047-1051) and its callback behaves
\* as cb: the host drops the handle, the detection runs, the callback runs,
\* and line 1050 deletes the key unless the callback threw
fireTimeout(s, t, cb) ==
    LET closure == s.timers[t]
        s0 == [s EXCEPT !.timers = MapDelete(s.timers, t),
                        !.calls = MapDelete(s.calls, t)]
        s1 == IF cb.kind = "debounce"
              THEN detectFeaturesAtPixelDebounced(s0, cb.call.pixel, cb.call.options,
                                                  cb.call.first)
              ELSE s0
    IN  IF cb.kind = "throw" THEN s1
        ELSE [s1 EXCEPT !.debounceTimers = MapDelete(s1.debounceTimers, closure.key)]

\* ------------------------------------------------------------------------
\* Operations
\* ------------------------------------------------------------------------
\* ret: the operation, whether it threw, the value it returned or handed to
\* the callback, and its arguments.  For a timeout that fired: its handle,
\* the arguments of the call that set it, what that call would have returned
\* synchronously (atCall), and whether the call was superseded, had been
\* cleared, or is early.  issued is <<k>> when the step made a debounced
\* call with the option debounceKey = k.  again is TRUE for an updateFeatures
\* whose sequence is the one the operation just before it indexed, and for a
\* step of the tester component whose restyling had the index rebuilt;
\* replaced for an updateFeatures that found items of a feature outside its
\* sequence in the tree.
NoRet ==
    [op |-> "none", threw |-> FALSE, value |-> <<>>, arg |-> <<>>, timer |-> 0,
     issued |-> <<>>, superseded |-> FALSE, cleared |-> FALSE, early |-> FALSE,
     atCall |-> <<>>, again |-> FALSE, replaced |-> FALSE]

\* The second instance before it is constructed.  handles are the timeouts
\* its debounced calls have set: their closures hold its `this`.  quiet is,
\* per key, the time left until the debounceDelay of its most recent
\* debounced call for the key has elapsed.
NoOther ==
    [constructed |-> FALSE, features |-> <<>>, tree |-> EmptyTree,
     debounceTimers |-> EmptyMap, handles |-> {}, quiet |-> [k \in Keys |-> 0]]

\* The detector used without the tester component
NoTester ==
    [enableHighlight |-> FALSE, enableHitDetection |-> FALSE,
     detectionMethod |-> "spatial", debounceDelay |-> DefaultDelay,
     lastHighlightedFeature |-> <<>>, vectorSource |-> <<>>]

\* A constructor that threw gave the caller no detector
Constructed == ~(ret.op = "constructor" /\ ret.threw)

SetTimerState(s) ==
    /\ debounceTimers' = s.debounceTimers
    /\ timers' = s.timers
    /\ nextTimer' = s.nextTimer
    /\ calls' = s.calls
    /\ quiet' = s.quiet

\* new SpatialFeatureDetector(fs) (lines 869-874)
Constructor(fs, v) ==
    LET u == IF Len(fs) > 0 THEN updateFeatures(fs)
             ELSE [features |-> <<>>, tree |-> EmptyTree, threw |-> FALSE]
    IN  /\ features = u.features
        /\ tree = u.tree
        /\ debounceTimers = EmptyMap
        /\ timers = EmptyMap
        /\ nextTimer = 1
        /\ view = v
        /\ ret = [NoRet EXCEPT !.op = "constructor", !.threw = u.threw, !.arg = fs]
        /\ calls = EmptyMap
        /\ quiet = [k \in Keys |-> 0]
        /\ other = NoOther
        /\ map = "live"
        /\ tester = NoTester

\* The operation just before indexed the sequence fs
JustIndexed(fs) ==
    /\ ret.op \in {"constructor", "updateFeatures"}
    /\ ~ret.threw
    /\ ret.arg = fs

\* The tree holds an item of a feature that is not in the sequence fs
HoldsOthers(fs) ==
    \E i \in 1..Len(tree) : \A k \in 1..Len(fs) : fs[k] # tree[i].feature

\* The items of a sequence whose feature is not in the tracked feature set
RECURSIVE ItemsOfNew(_)
ItemsOfNew(items) ==
    IF items = <<>> THEN <<>>
    ELSE IF \E k \in 1..Len(features) : features[k] = Head(items).feature
         THEN ItemsOfNew(Tail(items))
         ELSE <<Head(items)>> \o ItemsOfNew(Tail(items))

\* (mutant) an incremental updateFeatures: the items in the tree stay, and
\* only the features not tracked yet are indexed
UpdateFeaturesIncremental(fs) ==
    LET u == updateFeatures(fs)
    IN  /\ Constructed
        /\ features' = u.features
        /\ tree' = IF u.threw THEN EmptyTree ELSE tree \o ItemsOfNew(u.tree)
        /\ ret' = [NoRet EXCEPT !.op = "updateFeatures", !.threw = u.threw, !.arg = fs,
                                !.again = JustIndexed(fs), !.replaced = HoldsOthers(fs)]
        /\ UNCHANGED <<debounceTimers, timers, nextTimer, view, calls, quiet>>
        /\ UNCHANGED <<other, map, tester>>

\* (mutant) updateFeatures without the this.tree.clear() of line 882
UpdateFeaturesAccumulating(fs) ==
    LET u == updateFeatures(fs)
    IN  /\ Constructed
        /\ features' = u.features
        /\ tree' = tree \o u.tree
        /\ ret' = [NoRet EXCEPT !.op = "updateFeatures", !.threw = u.threw, !.arg = fs,
                                !.again = JustIndexed(fs), !.replaced = HoldsOthers(fs)]
        /\ UNCHANGED <<debounceTimers, timers, nextTimer, view, calls, quiet>>
        /\ UNCHANGED <<other, map, tester>>

UpdateFeatures(fs) ==
    LET u == updateFeatures(fs)
    IN  /\ Constructed
        /\ features' = u.features
        /\ tree' = u.tree
        /\ ret' = [NoRet EXCEPT !.op = "updateFeatures", !.threw = u.threw, !.arg = fs,
                                !.again = JustIndexed(fs), !.replaced = HoldsOthers(fs)]
        /\ UNCHANGED <<debounceTimers, timers, nextTimer, view, calls, quiet>>
        /\ UNCHANGED <<other, map, tester>>

\* clear() (lines 1309-1313)
Clear ==
    /\ Constructed
    /\ tree' = EmptyTree
    /\ features' = <<>>
    /\ \E s \in {clearDebounceTimers(TimerState)} : SetTimerState(s)
    /\ ret' = [NoRet EXCEPT !.op = "clear"]
    /\ UNCHANGED view
    /\ UNCHANGED <<other, map, tester>>

ClearDebounceTimers ==
    /\ Constructed
    /\ \E s \in {clearDebounceTimers(TimerState)} : SetTimerState(s)
    /\ ret' = [NoRet EXCEPT !.op = "clearDebounceTimers"]
    /\ UNCHANGED <<features, tree, view>>
    /\ UNCHANGED <<other, map, tester>>

\* detectFeaturesAtPixelDebounced or getFeatureAtPixelDebounced called by
\* the application
Debounced(pixel, options, first) ==
    /\ Constructed
    /\ nextTimer <= MaxTimers
    /\ \E s \in {detectFeaturesAtPixelDebounced(TimerState, pixel, options, first)} :
          SetTimerState(s)
    /\ ret' = [NoRet EXCEPT !.op = "debounced", !.issued = <<options.debounceKey>>]
    /\ UNCHANGED <<features, tree, view>>
    /\ UNCHANGED <<other, map, tester>>

\* A timeout whose delay has elapsed fires
Fire(t, cb) ==
    /\ t \in DOMAIN timers
    /\ timers[t].remaining = 0
    /\ cb.kind = "debounce" => nextTimer <= MaxTimers
    /\ \E s \in {fireTimeout(TimerState, t, cb)} : SetTimerState(s)
    /\ ret' = [NoRet EXCEPT !.op = "fire", !.threw = (cb.kind = "throw"),
                            !.value = TimeoutValue(timers[t]),
                            !.timer = t,
                            !.issued = IF cb.kind = "debounce"
                                       THEN <<cb.call.options.debounceKey>>
                                       ELSE <<>>,
                            !.arg = <<calls[t].pixel, calls[t].hitTolerance,
                                      calls[t].first>>,
                            !.superseded = calls[t].superseded,
                            !.cleared = calls[t].cleared,
                            !.early = (quiet[timers[t].key] > 0),
                            !.atCall = calls[t].atCall]
    /\ UNCHANGED <<features, tree, view>>
    /\ UNCHANGED <<other, map, tester>>

\* The step of the clock: half of DefaultDelay, so that a call can fall
\* strictly inside the delay of a pending timeout
TickStep == DefaultDelay \div 2

\* TickStep milliseconds pass
Tick ==
    /\ \/ \E t \in DOMAIN timers : timers[t].remaining > 0
       \/ \E k \in Keys : quiet[k] > 0 \/ other.quiet[k] > 0
    /\ timers' = [t \in DOMAIN timers |->
                    [timers[t] EXCEPT !.remaining = Max2(0, @ - TickStep)]]
    /\ quiet' = [k \in Keys |-> Max2(0, quiet[k] - TickStep)]
    /\ other' = [other EXCEPT
                    !.quiet = [k \in Keys |-> Max2(0, other.quiet[k] - TickStep)]]
    /\ ret' = [NoRet EXCEPT !.op = "tick"]
    /\ UNCHANGED <<features, tree, debounceTimers, nextTimer, view, calls>>
    /\ UNCHANGED <<map, tester>>

\* The user pans or zooms the map
SetView(v) ==
    /\ Constructed
    /\ v # view
    /\ view' = v
    /\ ret' = [NoRet EXCEPT !.op = "setView"]
    /\ UNCHANGED <<features, tree, debounceTimers, timers, nextTimer, calls, quiet>>
    /\ UNCHANGED <<other, map, tester>>

\* detectFeaturesAtCoordinate called by the application
DetectAtCoordinate(coordinate, tolerance) ==
    /\ Constructed
    /\ ret' = [NoRet EXCEPT !.op = "detectFeaturesAtCoordinate",
                            !.value = detectFeaturesAtCoordinate(tree, coordinate, tolerance),
                            !.arg = <<coordinate, tolerance>>]
    /\ UNCHANGED <<features, tree, debounceTimers, timers, nextTimer, view, calls, quiet>>
    /\ UNCHANGED <<other, map, tester>>

\* (mutant) a query at a pixel that cancels the pending debounced queries
DetectAtPixelCancelling(pixel, hitTolerance) ==
    /\ Constructed
    /\ ret' = [NoRet EXCEPT !.op = "detectFeaturesAtPixel",
                            !.value = detectFeaturesAtPixel(tree, view, pixel, hitTolerance),
                            !.arg = <<pixel, hitTolerance>>]
    /\ \E s \in {clearDebounceTimers(TimerState)} : SetTimerState(s)
    /\ UNCHANGED <<features, tree, view>>
    /\ UNCHANGED <<other, map, tester>>

\* detectFeaturesAtPixel called by the application
DetectAtPixel(pixel, hitTolerance) ==
    /\ Constructed
    /\ ret' = [NoRet EXCEPT !.op = "detectFeaturesAtPixel",
                            !.value = detectFeaturesAtPixel(tree, view, pixel, hitTolerance),
                            !.arg = <<pixel, hitTolerance>>]
    /\ UNCHANGED <<features, tree, debounceTimers, timers, nextTimer, view, calls, quiet>>
    /\ UNCHANGED <<other, map, tester>>

\* getFeatureAtPixel called by the application
GetFeatureAtPixel(pixel, hitTolerance) ==
    /\ Constructed
    /\ ret' = [NoRet EXCEPT !.op = "getFeatureAtPixel",
                            !.value = getFeatureAtPixel(tree, view, pixel, hitTolerance),
                            !.arg = <<pixel, hitTolerance>>]
    /\ UNCHANGED <<features, tree, debounceTimers, timers, nextTimer, view, calls, quiet>>
    /\ UNCHANGED <<other, map, tester>>

\* getDistanceToSegment (lines 1261-1289) applied to the arguments chosen
GetDistanceToSegment ==
    /\ ret.op = "none"
    /\ Len(ret.arg) = 3
    /\ ret' = [ret EXCEPT !.op = "getDistanceToSegment",
                          !.value = getDistanceToSegment(ret.arg[1], ret.arg[2],
                                                         ret.arg[3])]
    /\ UNCHANGED <<features, tree, debounceTimers, timers, nextTimer, view,
                   calls, quiet, other, map, tester>>

\* getStats() (lines 1294-1304).  RBush keeps up to 9 items in one leaf, a
\* tree of height 1, which is also the height of a cleared tree.
getStats ==
    [features |-> Len(features),
     indexedItems |-> Len(tree),
     treeHeight |-> IF Len(tree) <= MaxEntries THEN 1 ELSE 2]

\* ------------------------------------------------------------------------
\* A second instance (lines 860-874): its own tree, features and
\* debounceTimers; setTimeout and clearTimeout are the host's, shared
\* ------------------------------------------------------------------------
\* (mutant) one timer map shared by the instances, as a static field would be
OtherStateShared ==
    [debounceTimers |-> debounceTimers, timers |-> timers,
     nextTimer |-> nextTimer, calls |-> calls, quiet |-> other.quiet,
     own |-> other.handles, tree |-> other.tree]

\* What an operation of the second instance works on: its own map (line
\* 863) and tree (line 861), the host's timeouts, and of these its own
OtherState ==
    [debounceTimers |-> other.debounceTimers, timers |-> timers,
     nextTimer |-> nextTimer, calls |-> calls, quiet |-> other.quiet,
     own |-> other.handles, tree |-> other.tree]

\* The second instance takes the map of s; a timeout set on the way is its own
SetOtherTimerState(s) ==
    /\ other' = [other EXCEPT !.debounceTimers = s.debounceTimers,
                              !.handles = s.own,
                              !.quiet = s.quiet]
    /\ timers' = s.timers
    /\ nextTimer' = s.nextTimer
    /\ calls' = s.calls

\* new SpatialFeatureDetector(fs) once more (lines 869-874)
ConstructOther(fs) ==
    LET u == IF Len(fs) > 0 THEN updateFeatures(fs)
             ELSE [features |-> <<>>, tree |-> EmptyTree, threw |-> FALSE]
    IN  /\ Constructed
        /\ ~other.constructed
        /\ other' = IF u.threw THEN other
                    ELSE [NoOther EXCEPT !.constructed = TRUE,
                                         !.features = u.features, !.tree = u.tree]
        /\ ret' = [NoRet EXCEPT !.op = "other.constructor", !.threw = u.threw,
                                !.arg = fs]
        /\ UNCHANGED <<features, tree, debounceTimers, timers, nextTimer, view,
                       calls, quiet, map, tester>>

\* detectFeaturesAtPixelDebounced or getFeatureAtPixelDebounced on the
\* second instance
DebouncedOther(pixel, options, first) ==
    /\ other.constructed
    /\ nextTimer <= MaxTimers
    /\ \E s \in {detectFeaturesAtPixelDebounced(OtherState, pixel, options, first)} :
          SetOtherTimerState(s)
    /\ ret' = [NoRet EXCEPT !.op = "other.debounced",
                            !.issued = <<options.debounceKey>>]
    /\ UNCHANGED <<features, tree, debounceTimers, view, quiet, map, tester>>

\* clearDebounceTimers() on the second instance
ClearDebounceTimersOther ==
    /\ other.constructed
    /\ \E s \in {clearDebounceTimers(OtherState)} : SetOtherTimerState(s)
    /\ ret' = [NoRet EXCEPT !.op = "other.clearDebounceTimers"]
    /\ UNCHANGED <<features, tree, debounceTimers, view, quiet, map, tester>>

\* clear() on the second instance (lines 1309-1313)
ClearOther ==
    /\ other.constructed
    /\ \E s \in {clearDebounceTimers(OtherState)} :
          /\ other' = [other EXCEPT !.tree = EmptyTree, !.features = <<>>,
                                    !.debounceTimers = s.debounceTimers]
          /\ timers' = s.timers
          /\ nextTimer' = s.nextTimer
          /\ calls' = s.calls
    /\ ret' = [NoRet EXCEPT !.op = "other.clear"]
    /\ UNCHANGED <<features, tree, debounceTimers, view, quiet, map, tester>>

\* A timeout of the second instance fires: the detection runs on its tree
FireOther(t, cb) ==
    /\ t \in DOMAIN timers
    /\ t \in other.handles
    /\ timers[t].remaining = 0
    /\ cb.kind = "debounce" => nextTimer <= MaxTimers
    /\ \E s \in {fireTimeout(OtherState, t, cb)} : SetOtherTimerState(s)
    /\ ret' = [NoRet EXCEPT !.op = "other.fire", !.threw = (cb.kind = "throw"),
                            !.value = IF timers[t].first
                                      THEN getFeatureAtPixel(other.tree, view,
                                               timers[t].pixel, timers[t].hitTolerance)
                                      ELSE detectFeaturesAtPixel(other.tree, view,
                                               timers[t].pixel, timers[t].hitTolerance),
                            !.timer = t,
                            !.issued = IF cb.kind = "debounce"
                                       THEN <<cb.call.options.debounceKey>>
                                       ELSE <<>>,
                            !.arg = <<calls[t].pixel, calls[t].hitTolerance,
                                      calls[t].first>>,
                            !.superseded = calls[t].superseded,
                            !.cleared = calls[t].cleared,
                            !.early = (other.quiet[timers[t].key] > 0),
                            !.atCall = calls[t].atCall]
    /\ UNCHANGED <<features, tree, debounceTimers, view, quiet, map, tester>>

\* ------------------------------------------------------------------------
\* The tester component (lines 110-348): one effect that builds the source,
\* the map and the detector and listens to pointer moves and to the source's
\* change event, and its cleanup.  tester holds the component's state
\* enableHitDetection (line 116), enableHighlight (line 117),
\* detectionMethod (line 119) and debounceDelay (line 123), then
\* lastHighlightedFeatureRef.current (line 130; <<>> is null) and the
\* features of vectorSource in the order getFeatures() gives them.  With
\* detectionMethod 'canvas' the effect builds no detector (line 192) and
\* detectorRef.current is null: features and tree are then empty and no
\* step reads or writes them.
\* ------------------------------------------------------------------------
\* The options of the debounced call of lines 295-299: hitTolerance 5, the
\* component's debounceDelay and the key 'hover'
TesterOptions ==
    [hitTolerance |-> <<5>>, debounceDelay |-> <<tester.debounceDelay>>,
     debounceKey |-> <<"hover">>]

\* The callback of lines 291-294 restyles features and returns; it makes
\* no debounced call.  The detection before it (line 1048) throws when the
\* map has no coordinate for the pixel.
TesterCallbacks == {cb \in Callbacks : cb.kind # "debounce"}

\* The orders vectorSource.getFeatures() (line 311) can give the features of
\* the array the source was built from (line 176): the order is that of the
\* source's own index, not necessarily the array's
SourceOrders(fs) ==
    {src \in [1..Len(fs) -> {fs[i] : i \in 1..Len(fs)}] :
        \A i \in 1..Len(fs) : \E j \in 1..Len(fs) : src[j] = fs[i]}

\* What map.forEachFeatureAtPixel (lines 258-265) can give in the branch
\* 'canvas': a feature of the source or undefined, as the map's own hit
\* detection decides.  The other branches do not call it.
CanvasFeatures ==
    IF tester.detectionMethod = "canvas" /\ tester.enableHitDetection
    THEN {<<>>} \cup {<<tester.vectorSource[i]>> : i \in 1..Len(tester.vectorSource)}
    ELSE {<<>>}

\* Whether getFeatureAtPixel of the branch 'spatial' (line 273) can throw;
\* the other branches do not call it
SpatialThrows ==
    IF tester.detectionMethod = "spatial" /\ tester.enableHitDetection
    THEN BOOLEAN ELSE {FALSE}

\* handleFeatureDetection (lines 199-246) calls setStyle on a feature when
\* highlighting is on and a feature was detected (lines 216-232) or one is
\* highlighted (lines 234-244)
Restyles(detected) ==
    /\ tester.enableHighlight
    /\ detected # <<>> \/ tester.lastHighlightedFeature # <<>>

\* lastHighlightedFeatureRef.current after handleFeatureDetection (lines
\* 232 and 243)
HighlightedAfter(detected) ==
    IF tester.enableHighlight THEN detected ELSE tester.lastHighlightedFeature

\* The listener of lines 309-313 runs updateFeatures when a restyled
\* feature raises the source's change event: detectorRef.current is set
\* (from line 194 to line 346) and detectionMethod is not 'canvas'
Rebuilds(restyled) ==
    restyled /\ map = "live" /\ tester.detectionMethod # "canvas"

\* The listener of lines 309-313:
\* detectorRef.current.updateFeatures(vectorSource.getFeatures())
SourceChanged(restyled) ==
    IF Rebuilds(restyled)
    THEN /\ features' = updateFeatures(tester.vectorSource).features
         /\ tree' = updateFeatures(tester.vectorSource).tree
    ELSE UNCHANGED <<features, tree>>

\* handleFeatureDetection(detected) (lines 199-246) with the change
\* listener it sets off
handleFeatureDetection(detected) ==
    /\ SourceChanged(Restyles(detected))
    /\ tester' = [tester EXCEPT !.lastHighlightedFeature = HighlightedAfter(detected)]

\* The handle the detector holds for 'hover' if its timeout is pending, else 0
PendingHover ==
    IF "hover" \in DOMAIN debounceTimers /\ debounceTimers["hover"] \in DOMAIN timers
    THEN debounceTimers["hover"] ELSE 0

\* handlePointerMove (lines 249-304) on the live map.  canvasFeature is what
\* the map's hit detection gives in the branch 'canvas'; threw tells that
\* the map had no coordinate for the pixel in the branch 'spatial', whose
\* getFeatureAtPixel then throws before handleFeatureDetection runs.
PointerMove(pixel, canvasFeature, threw) ==
    /\ map = "live"
    /\ IF ~tester.enableHitDetection
       THEN \* line 250
            /\ ret' = [NoRet EXCEPT !.op = "pointermove", !.arg = <<pixel>>]
            /\ UNCHANGED <<features, tree, debounceTimers, timers, nextTimer, view,
                           calls, quiet, other, map, tester>>
       ELSE IF tester.detectionMethod = "canvas"
       THEN \* lines 254-268
            /\ handleFeatureDetection(canvasFeature)
            /\ ret' = [NoRet EXCEPT !.op = "pointermove", !.arg = <<pixel>>,
                                    !.value = canvasFeature]
            /\ UNCHANGED <<debounceTimers, timers, nextTimer, view, calls, quiet,
                           other, map>>
       ELSE IF tester.detectionMethod = "spatial"
       THEN \* lines 270-280
            /\ IF threw THEN UNCHANGED <<features, tree, tester>>
               ELSE handleFeatureDetection(getFeatureAtPixel(tree, view, pixel, <<5>>))
            /\ ret' = [NoRet EXCEPT
                          !.op = "pointermove", !.arg = <<pixel>>, !.threw = threw,
                          !.value = IF threw THEN <<>>
                                    ELSE getFeatureAtPixel(tree, view, pixel, <<5>>),
                          !.again = (~threw /\ Rebuilds(Restyles(
                                        getFeatureAtPixel(tree, view, pixel, <<5>>))))]
            /\ UNCHANGED <<debounceTimers, timers, nextTimer, view, calls, quiet,
                           other, map>>
       ELSE \* lines 282-302
            Debounced(pixel, TesterOptions, TRUE)

\* A timeout of the tester's debounced call fires (lines 1047-1051 with the
\* callback of lines 291-294): the detection runs; unless it throws,
\* handleFeatureDetection takes its feature, restyles, and the change
\* listener rebuilds the index, all before line 1050 deletes the key
TesterFire(t, cb) ==
    /\ t \in DOMAIN timers
    /\ timers[t].remaining = 0
    /\ \E s \in {fireTimeout(TimerState, t, cb)} : SetTimerState(s)
    /\ IF cb.kind = "return" THEN handleFeatureDetection(TimeoutValue(timers[t]))
       ELSE UNCHANGED <<features, tree, tester>>
    /\ ret' = [NoRet EXCEPT !.op = "fire", !.threw = (cb.kind = "throw"),
                            !.value = TimeoutValue(timers[t]),
                            !.timer = t,
                            !.arg = <<calls[t].pixel, calls[t].hitTolerance,
                                      calls[t].first>>,
                            !.superseded = calls[t].superseded,
                            !.cleared = calls[t].cleared,
                            !.early = (quiet[timers[t].key] > 0),
                            !.atCall = calls[t].atCall,
                            !.again = (cb.kind = "return"
                                       /\ Rebuilds(Restyles(TimeoutValue(timers[t]))))]
    /\ UNCHANGED <<view, other, map>>

\* (mutant) a cleanup that disposes of the map with the timeouts pending
UnmountKeepingTimers ==
    /\ map = "live"
    /\ Constructed
    /\ SourceChanged(tester.lastHighlightedFeature # <<>>)
    /\ tester' = [tester EXCEPT !.lastHighlightedFeature = <<>>]
    /\ map' = "disposed"
    /\ ret' = [NoRet EXCEPT !.op = "unmount", !.timer = PendingHover,
                            !.again = Rebuilds(tester.lastHighlightedFeature # <<>>)]
    /\ UNCHANGED <<debounceTimers, timers, nextTimer, view, calls, quiet, other>>

\* The cleanup of the effect (lines 316-347): clearDebounceTimers() on the
\* detector if there is one (lines 325-327), the highlighted feature
\* restyled (lines 329-338), which has the change listener rebuild the
\* index, the pointermove listener removed (line 341), the map disposed of
\* (lines 344-345).  timer is the handle pending for 'hover' at that moment,
\* again tells that the index was rebuilt.
Unmount ==
    /\ map = "live"
    /\ Constructed
    /\ IF tester.detectionMethod = "canvas"
       THEN UNCHANGED <<debounceTimers, timers, nextTimer, calls, quiet>>
       ELSE \E s \in {clearDebounceTimers(TimerState)} : SetTimerState(s)
    /\ SourceChanged(tester.lastHighlightedFeature # <<>>)
    /\ tester' = [tester EXCEPT !.lastHighlightedFeature = <<>>]
    /\ map' = "disposed"
    /\ ret' = [NoRet EXCEPT !.op = "unmount", !.timer = PendingHover,
                            !.again = Rebuilds(tester.lastHighlightedFeature # <<>>)]
    /\ UNCHANGED <<view, other>>

\* The effect runs again (lines 153-196) after a change of the component's
\* state st: a new source, a new map and, unless detectionMethod is
\* 'canvas', a new detector built from the array fs, with a timer map of its
\* own; the host's timeouts are what they were
Mount(fs, source, st) ==
    LET u == updateFeatures(fs)
    IN  /\ map = "disposed"
        /\ Len(fs) > 0
        /\ ~u.threw
        /\ features' = IF st.detectionMethod = "canvas" THEN <<>> ELSE u.features
        /\ tree' = IF st.detectionMethod = "canvas" THEN EmptyTree ELSE u.tree
        /\ debounceTimers' = EmptyMap
        /\ map' = "live"
        /\ tester' = [enableHighlight |-> st.enableHighlight,
                      enableHitDetection |-> st.enableHitDetection,
                      detectionMethod |-> st.detectionMethod,
                      debounceDelay |-> st.debounceDelay,
                      lastHighlightedFeature |-> <<>>,
                      vectorSource |-> source]
        /\ ret' = [NoRet EXCEPT !.op = "mount", !.arg = fs]
        /\ UNCHANGED <<timers, nextTimer, view, calls, quiet, other>>

\* ------------------------------------------------------------------------
\* Specifications
\* ------------------------------------------------------------------------
\* The detector with its timers, under a small set of features
Init == \E fs \in DetectorFeatureSeqs, v \in Views : Constructor(fs, v)

Next ==
    \/ \E fs \in DetectorFeatureSeqs : UpdateFeatures(fs)
    \/ Clear
    \/ ClearDebounceTimers
    \/ \E c \in DebouncedCalls : Debounced(c.pixel, c.options, c.first)
    \/ \E t \in DOMAIN timers, cb \in Callbacks : Fire(t, cb)
    \/ Tick
    \/ \E v \in Views : SetView(v)

Spec == Init /\ [][Next]_vars

\* The timers alone, over one index and one view, with what the host owes:
\* time passes, and a timeout whose delay has elapsed fires
InitTimers == Constructor(<<2, 1>>, CHOOSE v \in Views : v.resolution = 1)

NextTimers ==
    \/ ClearDebounceTimers
    \/ \E c \in DebouncedCalls : Debounced(c.pixel, c.options, c.first)
    \/ \E t \in DOMAIN timers, cb \in Callbacks : Fire(t, cb)
    \/ Tick

\* Some callback can fire handle t: the guard of Fire(t, cb) for a callback
\* that returns
FireEnabled(t) == t \in DOMAIN timers /\ timers[t].remaining = 0

\* Weak fairness of the firing of handle t, WF_vars(\E cb : Fire(t, cb)),
\* with the enabling condition of the firing written out
FireFairness(t) ==
    \/ []<>(~FireEnabled(t))
    \/ []<><<\E cb \in Callbacks : Fire(t, cb)>>_vars

FairSpec ==
    /\ InitTimers
    /\ [][NextTimers]_vars
    /\ WF_vars(Tick)
    /\ \A t \in 1..MaxTimers : FireFairness(t)

\* The index alone, rebuilt from every feature sequence
InitIndex == \E fs \in FeatureSeqs, v \in Views : Constructor(fs, v)

NextIndex ==
    \/ \E fs \in FeatureSeqs : UpdateFeatures(fs)
    \/ Clear

SpecIndex == InitIndex /\ [][NextIndex]_vars

\* Every query at a coordinate, on the index of every feature sequence
InitQuery == \E fs \in FeatureSeqs : Constructor(fs, CHOOSE v \in Views : v.resolution = 1)

NextQuery == \E c \in Coordinates, tol \in Tolerances : DetectAtCoordinate(c, tol)

SpecQuery == InitQuery /\ [][NextQuery]_vars

\* Queries on the index of the point and the two-coordinate line
InitScenario ==
    \E fs \in ScenarioFeatureSeqs : Constructor(fs, CHOOSE v \in Views : v.resolution = 1)

NextScenario ==
    \E c \in ScenarioCoordinates, tol \in Tolerances : DetectAtCoordinate(c, tol)

SpecScenario == InitScenario /\ [][NextScenario]_vars

\* The queries at a pixel, on the index of every feature sequence and under
\* every view
InitPixel == \E fs \in FeatureSeqs, v \in Views : Constructor(fs, v)

NextPixel ==
    \/ \E p \in Pixels, ht \in HitTolerances : DetectAtPixel(p, ht)
    \/ \E p \in Pixels, ht \in HitTolerances : GetFeatureAtPixel(p, ht)
    \/ \E v \in Views : SetView(v)
    \/ \E fs \in DetectorFeatureSeqs : UpdateFeatures(fs)

SpecPixel == InitPixel /\ [][NextPixel]_vars

\* The debounced queries of the frame: under the default key and under the
\* key "hover", and the callbacks that return, throw or issue one of them
FrameCalls == {c \in DebouncedCalls : ~c.first}

FrameCallbacks == {cb \in Callbacks : cb.call \in FrameCalls}

\* Every operation of the detector: the queries between updates of the
\* index and debounced queries
InitFrame == Constructor(<<2, 1>>, CHOOSE v \in Views : v.resolution = 1)

NextFrame ==
    \/ \E fs \in DetectorFeatureSeqs : UpdateFeatures(fs)
    \/ Clear
    \/ ClearDebounceTimers
    \/ \E c \in FrameCalls : Debounced(c.pixel, c.options, c.first)
    \/ \E t \in DOMAIN timers, cb \in FrameCallbacks : Fire(t, cb)
    \/ Tick
    \/ \E c \in FrameCoordinates : DetectAtCoordinate(c, 1)
    \/ \E p \in FramePixels, ht \in FrameHitTolerances : DetectAtPixel(p, ht)
    \/ \E p \in FramePixels, ht \in FrameHitTolerances : GetFeatureAtPixel(p, ht)

SpecFrame == InitFrame /\ [][NextFrame]_vars

\* Two instances: the debounced calls of each, under the default key and
\* under the key 'hover', their timeouts, clearDebounceTimers and clear
InstanceFeatureSeqs == {<<1>>, <<4, 2>>}

InstanceCalls == {c \in DebouncedCalls : c.pixel = Pt(0, 4)}

InstanceCallbacks == {cb \in Callbacks : cb.kind # "debounce"}

InitInstances == Constructor(<<2, 1>>, CHOOSE v \in Views : v.resolution = 1)

NextInstances ==
    \/ \E fs \in InstanceFeatureSeqs : ConstructOther(fs)
    \/ \E c \in InstanceCalls : Debounced(c.pixel, c.options, c.first)
    \/ \E c \in InstanceCalls : DebouncedOther(c.pixel, c.options, c.first)
    \/ ClearDebounceTimers
    \/ ClearDebounceTimersOther
    \/ Clear
    \/ ClearOther
    \/ \E t \in (DOMAIN timers) \ other.handles, cb \in InstanceCallbacks : Fire(t, cb)
    \/ \E t \in DOMAIN timers, cb \in InstanceCallbacks : FireOther(t, cb)
    \/ Tick

SpecInstances == InitInstances /\ [][NextInstances]_vars

\* Debounced calls under every form of the key, their timeouts and the clock
KeyCallbacks == {cb \in Callbacks : cb.kind = "return"}

InitKeys == Constructor(<<2, 1>>, CHOOSE v \in Views : v.resolution = 1)

NextKeys ==
    \/ \E c \in KeyCalls : Debounced(c.pixel, c.options, c.first)
    \/ \E t \in DOMAIN timers, cb \in KeyCallbacks : Fire(t, cb)
    \/ Tick
    \/ ClearDebounceTimers

SpecKeys == InitKeys /\ [][NextKeys]_vars

\* The tester component: points, lines or both (lines 165-174), pointer
\* moves, the timeouts, the clock, the cleanup and the effect run again
TesterFeatureSeqs == {<<1>>, <<2>>, <<1, 2>>}

\* Where the pointer moves: over a feature, near one, and far from all
TesterPixels == {Pt(0, 4), Pt(2, 1), Pt(40, 4)}

\* The values the component's state takes: the checkboxes, the three
\* detection methods, and of the delays of the slider (lines 466-470, 0 to
\* 200 in steps of 10) none and the default
TesterStates ==
    [enableHighlight : BOOLEAN, enableHitDetection : BOOLEAN,
     detectionMethod : {"canvas", "spatial", "spatialDebounced"},
     debounceDelay : {0, DefaultDelay}]

\* The component after its first effect (lines 153-196), in its initial
\* state (lines 116-123): hit detection and highlighting on, detectionMethod
\* 'spatial', geometryType 'mixed', debounceDelay 50
InitTester ==
    \E source \in SourceOrders(<<1, 2>>) :
        /\ features = updateFeatures(<<1, 2>>).features
        /\ tree = updateFeatures(<<1, 2>>).tree
        /\ debounceTimers = EmptyMap
        /\ timers = EmptyMap
        /\ nextTimer = 1
        /\ view = CHOOSE v \in Views : v.resolution = 1
        /\ ret = [NoRet EXCEPT !.op = "constructor", !.arg = <<1, 2>>]
        /\ calls = EmptyMap
        /\ quiet = [k \in Keys |-> 0]
        /\ other = NoOther
        /\ map = "live"
        /\ tester = [enableHighlight |-> TRUE, enableHitDetection |-> TRUE,
                     detectionMethod |-> "spatial", debounceDelay |-> DefaultDelay,
                     lastHighlightedFeature |-> <<>>, vectorSource |-> source]

NextTester ==
    \/ \E p \in TesterPixels, threw \in SpatialThrows, canvasFeature \in CanvasFeatures :
          PointerMove(p, canvasFeature, threw)
    \/ \E t \in DOMAIN timers, cb \in TesterCallbacks : TesterFire(t, cb)
    \/ Tick
    \/ Unmount
    \/ \E fs \in TesterFeatureSeqs, st \in TesterStates :
          \E source \in SourceOrders(fs) : Mount(fs, source, st)

SpecTester == InitTester /\ [][NextTester]_vars

\* getDistanceToSegment on every point and segment of the grid: an empty
\* detector, and the arguments of the call to come
InitSegment ==
    \E point \in SegmentCoordinates, segStart \in SegmentCoordinates,
       segEnd \in SegmentCoordinates :
        /\ features = <<>>
        /\ tree = EmptyTree
        /\ debounceTimers = EmptyMap
        /\ timers = EmptyMap
        /\ nextTimer = 1
        /\ view = CHOOSE v \in Views : v.resolution = 1
        /\ ret = [NoRet EXCEPT !.arg = <<point, segStart, segEnd>>]
        /\ calls = EmptyMap
        /\ quiet = [k \in Keys |-> 0]
        /\ other = NoOther
        /\ map = "live"
        /\ tester = NoTester

NextSegment == GetDistanceToSegment

SpecSegment == InitSegment /\ [][NextSegment]_vars

\* ------------------------------------------------------------------------
\* Properties
\* ------------------------------------------------------------------------
HasNoGeometry(fs) == \E i \in 1..Len(fs) : Geometry(fs[i]).type = "none"

\* C1: an updateFeatures call that throws, on a detector whose index was
\* built from an earlier feature set, leaves the index content and the
\* tracked feature set exactly as they were before the call.
C1_UpdateAllOrNothing ==
    [][(tree # EmptyTree /\ ret'.op = "updateFeatures" /\ ret'.threw)
          => (tree' = tree /\ features' = features)]_vars

\* C2: updateFeatures, and the constructor, throw exactly when some feature
\* of the sequence given has no geometry, whatever its position; no
\* geometry-less feature is skipped silently.
C2_MissingGeometryThrows ==
    ret.op \in {"updateFeatures", "constructor"}
        => (ret.threw <=> HasNoGeometry(ret.arg))

\* C2 witness: updateFeatures threw on a sequence whose first feature has a
\* geometry and whose second has none.
C2_Witness ==
    /\ ret.op = "updateFeatures"
    /\ ret.threw
    /\ Len(ret.arg) = 2
    /\ Geometry(ret.arg[1]).type # "none"
    /\ Geometry(ret.arg[2]).type = "none"

\* C10: the sequence detectFeaturesAtCoordinate returns holds each feature
\* at most once.
C10_NoDuplicates ==
    ret.op = "detectFeaturesAtCoordinate"
        => \A i, j \in 1..Len(ret.value) : i # j => ret.value[i] # ret.value[j]

\* The candidates of the last query that lie within its tolerance
CandidatesWithin ==
    LET cands == TreeSearch(tree, QueryBox(ret.arg[1], ret.arg[2]))
    IN  [f \in Features |->
            {k \in 1..Len(cands) :
                /\ cands[k].feature = f
                /\ WithinTolerance(CandidateDistance(ret.arg[1], cands[k]),
                                   ret.arg[2])}]

\* C10 witness: a query returned two features, one of them with a segment
\* item and a whole-extent item, three items in all, within tolerance.
C10_Witness ==
    /\ ret.op = "detectFeaturesAtCoordinate"
    /\ Len(ret.value) = 2
    /\ \E f \in Features :
          /\ Cardinality(CandidatesWithin[f]) >= 3
          /\ \E i \in 1..Len(ret.value) : ret.value[i] = f

\* C3: once clearDebounceTimers() has returned, the callback of no debounced
\* call made before it is invoked.
C3_CancellationSafety == ret.op = "fire" => ~ret.cleared

\* C4: each key has at most one outstanding timeout.
C4_AtMostOnePerKey ==
    \A k \in Keys : Cardinality({t \in DOMAIN timers : timers[t].key = k}) <= 1

\* C5: of debounced calls with the same key, each made before the delay of
\* the one before has elapsed, only the callback of the last is invoked: the
\* callback of a call superseded within its delay never is.
C5_Coalescing == ret.op = "fire" => ~ret.superseded

\* C6: the value handed to the callback of a timeout is what the synchronous
\* pixel detection returns at that moment, on the tree and the view of the
\* moment, for the pixel and the hitTolerance of the call that set it.
C6_FireMatchesSync ==
    ret.op = "fire"
        => ret.value = IF ret.arg[3]
                       THEN getFeatureAtPixel(tree, view, ret.arg[1], ret.arg[2])
                       ELSE detectFeaturesAtPixel(tree, view, ret.arg[1], ret.arg[2])

\* C6 witness: a timeout set with a hitTolerance handed its callback a
\* feature that the synchronous detection did not return when it was set.
C6_Witness ==
    /\ ret.op = "fire"
    /\ ret.arg[2] # <<>>
    /\ ret.value # <<>>
    /\ ret.value # ret.atCall

\* C7: a callback is invoked only once the debounceDelay of the most recent
\* debounced call for its key has elapsed.
C7_TrailingEdge == ret.op = "fire" => ~ret.early

\* The key a debounced call with option debounceKey = issued[1] asks for
RequestedKey(issued) ==
    IF issued[1] = <<>> \/ issued[1] = <<"">> THEN "default" ELSE issued[1][1]

\* C8: a debounced call for one key neither cancels nor changes the pending
\* timeout of another key; a pending timeout goes away only by firing, by a
\* debounced call for its own key or by clearing, its handle is never used
\* again, and every pending timeout does go away.
C8_KeysIndependent ==
    /\ [][\A t \in DOMAIN timers :
            /\ (ret'.op = "debounced" /\ RequestedKey(ret'.issued) # timers[t].key)
                  => (t \in DOMAIN timers' /\ timers'[t] = timers[t])
            /\ t \notin DOMAIN timers'
                  => \/ ret'.op = "fire" /\ ret'.timer = t
                     \/ ret'.issued # <<>> /\ RequestedKey(ret'.issued) = timers[t].key
                     \/ ret'.op \in {"clear", "clearDebounceTimers"}]_vars
    /\ [][\A t \in 1..MaxTimers :
            (t < nextTimer /\ t \notin DOMAIN timers) => t \notin DOMAIN timers']_vars
    /\ \A t \in 1..MaxTimers : (t \in DOMAIN timers) ~> (t \notin DOMAIN timers)

\* C8 witness: a debounced call has just set a timeout while the timeout of
\* another key is pending.
C8_Witness ==
    /\ ret.op = "debounced"
    /\ \E t \in DOMAIN timers :
          /\ t < nextTimer - 1
          /\ (nextTimer - 1) \in DOMAIN timers
          /\ timers[t].key # timers[nextTimer - 1].key

\* C9: after clear() the tree and the feature set are empty, no timeout is
\* pending for any key, and every query returns the empty sequence.
C9_ClearIsFullReset ==
    ret.op = "clear"
        => /\ tree = EmptyTree
           /\ features = <<>>
           /\ DOMAIN debounceTimers = {}
           /\ DOMAIN timers = {}
           /\ \A c \in Coordinates, tol \in Tolerances :
                 detectFeaturesAtCoordinate(tree, c, tol) = <<>>

\* ------------------------------------------------------------------------
\* Properties of the queries at a coordinate
\* ------------------------------------------------------------------------
\* C11: the features detectFeaturesAtCoordinate returns are in non-decreasing
\* order of the exact distance from the query coordinate to their geometry.
C11_OrderedByDistance ==
    ret.op = "detectFeaturesAtCoordinate"
        => \A i, j \in 1..Len(ret.value) :
              i < j => DistLeq(getDistanceToFeature(ret.arg[1], ret.value[i]),
                               getDistanceToFeature(ret.arg[1], ret.value[j]))

\* The square of the distance from the coordinate to point feature f
SquaredDistanceToPoint(coordinate, f) ==
    (coordinate[1] - Geometry(f).coords[1][1]) * (coordinate[1] - Geometry(f).coords[1][1])
    + (coordinate[2] - Geometry(f).coords[1][2]) * (coordinate[2] - Geometry(f).coords[1][2])

Returned(f) == \E i \in 1..Len(ret.value) : ret.value[i] = f

\* C12: an indexed point feature is returned by detectFeaturesAtCoordinate
\* exactly when its distance from the query coordinate is at most the
\* tolerance: at distance equal to the tolerance it is returned, at a
\* greater distance it is not.
C12_ToleranceInclusive ==
    ret.op = "detectFeaturesAtCoordinate"
        => \A k \in 1..Len(features) :
              Geometry(features[k]).type = "Point"
                  => (Returned(features[k])
                        <=> SquaredDistanceToPoint(ret.arg[1], features[k])
                               <= ret.arg[2] * ret.arg[2])

\* C12 witness: a query returned a point feature that lies at a distance
\* equal to its tolerance, which is not 0.
C12_Witness ==
    /\ ret.op = "detectFeaturesAtCoordinate"
    /\ ret.arg[2] > 0
    /\ \E k \in 1..Len(features) :
          /\ Geometry(features[k]).type = "Point"
          /\ SquaredDistanceToPoint(ret.arg[1], features[k]) = ret.arg[2] * ret.arg[2]
          /\ Returned(features[k])

\* C13: a query with tolerance 0 at the coordinate of an indexed point
\* feature returns that feature, whatever else is indexed.
C13_Containment ==
    (ret.op = "detectFeaturesAtCoordinate" /\ ret.arg[2] = 0)
        => \A k \in 1..Len(features) :
              (Geometry(features[k]).type = "Point"
                  /\ Geometry(features[k]).coords[1] = ret.arg[1])
                 => Returned(features[k])

\* C13 witness: a query with tolerance 0 at the coordinate of a point feature
\* indexed after a line returned the point.
C13_Witness ==
    /\ ret.op = "detectFeaturesAtCoordinate"
    /\ ret.arg[2] = 0
    /\ Len(features) = 2
    /\ Geometry(features[1]).type = "LineString"
    /\ Geometry(features[2]).type = "Point"
    /\ Geometry(features[2]).coords[1] = ret.arg[1]
    /\ ret.value = <<features[2]>>

\* C14: with a point at (0,0) and a line from (10,0) to (10,10) indexed, the
\* query (0,0.5) with tolerance 1 returns the point alone, the query (10,5)
\* with tolerance 0.5 the line alone, and the query (5,5) with tolerance 1
\* nothing (one map unit is two grid steps).
C14_Scenario ==
    (ret.op = "detectFeaturesAtCoordinate" /\ features \in ScenarioFeatureSeqs)
        => /\ ret.arg = <<Pt(0, 1), 2>> => ret.value = <<1>>
           /\ ret.arg = <<Pt(20, 10), 1>> => ret.value = <<7>>
           /\ ret.arg = <<Pt(10, 10), 2>> => ret.value = <<>>

\* C14 witness: the query (10,5) with tolerance 0.5 returned the line, which
\* is indexed by its whole-extent item alone.
C14_Witness ==
    /\ ret.op = "detectFeaturesAtCoordinate"
    /\ features = <<1, 7>>
    /\ Len(tree) = 2
    /\ ret.arg = <<Pt(20, 10), 1>>
    /\ ret.value = <<7>>

\* ------------------------------------------------------------------------
\* Properties of the index
\* ------------------------------------------------------------------------
\* C15: updateFeatures with the sequence that was just indexed leaves the
\* number of index items and the result of every query at a coordinate as
\* they were.
C15_RebuildIdempotent ==
    [][(JustIndexed(ret'.arg) /\ ret'.op = "updateFeatures")
          => /\ ~ret'.threw
             /\ Len(tree') = Len(tree)
             /\ \A c \in Coordinates, tol \in Tolerances :
                   detectFeaturesAtCoordinate(tree', c, tol)
                       = detectFeaturesAtCoordinate(tree, c, tol)]_vars

\* C15 witness: updateFeatures has run a second time on a sequence of a
\* polygon and a line of three coordinates.
C15_Witness ==
    /\ ret.op = "updateFeatures"
    /\ ret.again
    /\ ret.arg = <<4, 2>>
    /\ Len(tree) > 0

\* How often feature f occurs in the sequence fs
Occurrences(f, fs) == Cardinality({i \in 1..Len(fs) : fs[i] = f})

\* The segment items and the whole-extent items feature f owns in the tree
SegmentItemsOf(f) ==
    Cardinality({i \in 1..Len(tree) : tree[i].feature = f /\ tree[i].seg # <<>>})

ExtentItemsOf(f) ==
    Cardinality({i \in 1..Len(tree) : tree[i].feature = f /\ tree[i].seg = <<>>})

Indexed == ret.op \in {"constructor", "updateFeatures"} /\ ~ret.threw

\* C17 as claimed: after a successful updateFeatures every feature owns at
\* least one item; a line or a polygon with k > 2 coordinates owns k - 1
\* segment items and one whole-extent item; a line with at most 2
\* coordinates and a geometry that is neither owns one whole-extent item and
\* no segment item.
C17_DecompositionCount ==
    Indexed
        => \A k \in 1..Len(features) :
              LET f == features[k]
                  g == Geometry(f)
              IN  /\ SegmentItemsOf(f) + ExtentItemsOf(f) >= 1
                  /\ (g.type \in {"LineString", "Polygon"} /\ Len(g.coords) > 2)
                        => /\ SegmentItemsOf(f) = Len(g.coords) - 1
                           /\ ExtentItemsOf(f) = 1
                  /\ (g.type \notin {"LineString", "Polygon"}
                         \/ (g.type = "LineString" /\ Len(g.coords) <= 2))
                        => /\ SegmentItemsOf(f) = 0
                           /\ ExtentItemsOf(f) = 1

\* C17 as amended: each occurrence of a feature in the sequence contributes
\* k - 1 segment items and one whole-extent item for a line of k > 2
\* coordinates, one whole-extent item for a shorter line or another
\* geometry, and for a polygon what a line along its exterior ring
\* contributes and one whole-extent item more.
C17_DecompositionCountAmended ==
    Indexed
        => \A k \in 1..Len(features) :
              LET f == features[k]
                  g == Geometry(f)
                  n == Occurrences(f, features)
                  long == g.type \in {"LineString", "Polygon"} /\ Len(g.coords) > 2
              IN  /\ SegmentItemsOf(f) + ExtentItemsOf(f) >= 1
                  /\ SegmentItemsOf(f) = IF long THEN n * (Len(g.coords) - 1) ELSE 0
                  /\ ExtentItemsOf(f) = IF g.type = "Polygon" THEN 2 * n ELSE n

\* C17 witness: updateFeatures has indexed a line of three coordinates and a
\* polygon whose ring has four.
C17_Witness ==
    /\ ret.op = "updateFeatures"
    /\ ~ret.threw
    /\ features = <<2, 4>>
    /\ SegmentItemsOf(4) = 3
    /\ ExtentItemsOf(4) = 2
    /\ SegmentItemsOf(2) = 2

\* C19: after a successful updateFeatures(F) every index item belongs to a
\* feature of F, and every feature a query at a coordinate returns is one of
\* F, whatever was indexed before.
C19_UpdateReplaces ==
    (ret.op = "updateFeatures" /\ ~ret.threw)
        => /\ \A i \in 1..Len(tree) : Occurrences(tree[i].feature, ret.arg) > 0
           /\ \A c \in Coordinates, tol \in Tolerances :
                 \A j \in 1..Len(detectFeaturesAtCoordinate(tree, c, tol)) :
                    Occurrences(detectFeaturesAtCoordinate(tree, c, tol)[j], ret.arg) > 0

\* C19 witness: a successful updateFeatures of a sequence that is not empty
\* found items of other features in the tree.
C19_Witness ==
    /\ ret.op = "updateFeatures"
    /\ ~ret.threw
    /\ ret.replaced
    /\ Len(tree) > 0

\* ------------------------------------------------------------------------
\* Properties of the queries at a pixel
\* ------------------------------------------------------------------------
\* The coordinate and the tolerance (grid steps) a query at a pixel stands
\* for under the view
CoordinateAsked == getCoordinateFromPixel(view, ret.arg[1])

ToleranceAsked ==
    (IF ret.arg[2] = <<>> THEN 0 ELSE ret.arg[2][1]) * view.resolution

PixelQuery == ret.op \in {"detectFeaturesAtPixel", "getFeatureAtPixel"}

\* C18: updateFeatures and the constructor accept the empty sequence and
\* leave an empty index on which every query returns the empty sequence;
\* no query at a pixel fails, and one that has no feature within its
\* tolerance returns the empty sequence (no feature, for getFeatureAtPixel).
C18_EmptyIsValid ==
    /\ (ret.op \in {"constructor", "updateFeatures"} /\ ret.arg = <<>>)
          => /\ ~ret.threw
             /\ tree = EmptyTree
             /\ features = <<>>
             /\ \A c \in Coordinates, tol \in Tolerances :
                   detectFeaturesAtCoordinate(tree, c, tol) = <<>>
             /\ \A p \in Pixels, ht \in HitTolerances :
                   /\ detectFeaturesAtPixel(tree, view, p, ht) = <<>>
                   /\ getFeatureAtPixel(tree, view, p, ht) = <<>>
    /\ PixelQuery
          => /\ ~ret.threw
             /\ (\A k \in 1..Len(features) :
                    ~WithinTolerance(getDistanceToFeature(CoordinateAsked, features[k]),
                                     ToleranceAsked))
                   => ret.value = <<>>

\* C18 witness: updateFeatures with the empty sequence succeeded on a
\* detector whose tree held items.
C18_Witness ==
    /\ ret.op = "updateFeatures"
    /\ ret.arg = <<>>
    /\ ~ret.threw
    /\ ret.replaced
    /\ tree = EmptyTree

\* C20: detectFeaturesAtPixel returns what detectFeaturesAtCoordinate returns
\* for the coordinate of the pixel and the tolerance hitTolerance times the
\* resolution of the view, hitTolerance being 0 when omitted; and
\* getFeatureAtPixel returns the first feature of that sequence, or none.
C20_PixelAdapter ==
    /\ ret.op = "detectFeaturesAtPixel"
          => ret.value = detectFeaturesAtCoordinate(tree, CoordinateAsked, ToleranceAsked)
    /\ ret.op = "getFeatureAtPixel"
          => ret.value
               = IF detectFeaturesAtCoordinate(tree, CoordinateAsked, ToleranceAsked) = <<>>
                 THEN <<>>
                 ELSE <<detectFeaturesAtCoordinate(tree, CoordinateAsked, ToleranceAsked)[1]>>

\* C20 witness: under the view of resolution 2 getFeatureAtPixel with
\* hitTolerance 1 returned a feature that a tolerance of 1 grid step at the
\* same coordinate does not reach.
C20_Witness ==
    /\ ret.op = "getFeatureAtPixel"
    /\ view.resolution = 2
    /\ ret.arg[2] = <<1>>
    /\ ret.value # <<>>
    /\ detectFeaturesAtCoordinate(tree, CoordinateAsked, 1) = <<>>

\* C16: detectFeaturesAtCoordinate, detectFeaturesAtPixel and
\* getFeatureAtPixel change neither the tree, nor the feature set, nor the
\* pending timers; a debounced query and the firing of its timeout change
\* neither the tree nor the feature set; the tree and the feature set
\* change in updateFeatures and clear only.
C16_QueriesFrame ==
    [][/\ ret'.op \in {"detectFeaturesAtCoordinate", "detectFeaturesAtPixel",
                        "getFeatureAtPixel"}
            => UNCHANGED <<tree, features, debounceTimers, timers>>
       /\ ret'.op \in {"debounced", "fire"} => UNCHANGED <<tree, features>>
       /\ (tree' # tree \/ features' # features)
            => ret'.op \in {"updateFeatures", "clear"}]_vars

\* C16 witness: detectFeaturesAtPixel returned a feature while a debounced
\* query was pending.
C16_Witness ==
    /\ ret.op = "detectFeaturesAtPixel"
    /\ ret.value # <<>>
    /\ tree # EmptyTree
    /\ DOMAIN timers # {}
    /\ DOMAIN debounceTimers # {}

\* ------------------------------------------------------------------------
\* The exact distance of a geometry, by the geometry alone
\* ------------------------------------------------------------------------
\* The edge from a to b crosses the ray from (x, y) towards greater x
CrossesRay(a, b, x, y) ==
    /\ (a[2] > y) # (b[2] > y)
    /\ IF b[2] > a[2]
       THEN (x - a[1]) * (b[2] - a[2]) < (y - a[2]) * (b[1] - a[1])
       ELSE (x - a[1]) * (b[2] - a[2]) > (y - a[2]) * (b[1] - a[1])

\* The coordinate is inside the closed ring: an odd number of its edges
\* cross the ray
InsideRing(ring, coordinate) ==
    Cardinality({i \in 1..(Len(ring) - 1) :
                    CrossesRay(ring[i], ring[i + 1], coordinate[1], coordinate[2])})
        % 2 = 1

\* The least of a non-empty set of distances
Least(ds) == CHOOSE d \in ds : \A e \in ds : DistLeq(d, e)

\* The least distance to a segment of the coordinates
SegmentsLeast(coordinate, coords) ==
    Least({getDistanceToSegment(coordinate, coords[i], coords[i + 1]) :
              i \in 1..(Len(coords) - 1)})

\* The distance to the nearest point of the extent
ExtentLeast(coordinate, e) ==
    Hypot(coordinate[1] - Max2(e[1], Min2(coordinate[1], e[3])),
          coordinate[2] - Max2(e[2], Min2(coordinate[2], e[4])))

ExactDistanceOf(coordinate, geometry) ==
    CASE geometry.type = "Point" ->
            Hypot(coordinate[1] - geometry.coords[1][1],
                  coordinate[2] - geometry.coords[1][2])
      [] geometry.type = "LineString" -> SegmentsLeast(coordinate, geometry.coords)
      [] geometry.type = "Polygon" ->
            IF InsideRing(geometry.coords, coordinate) THEN <<0, 1>>
            ELSE SegmentsLeast(coordinate, geometry.coords)
      [] geometry.type = "Other" -> ExtentLeast(coordinate, Extent(geometry.coords))
      [] geometry.type = "none" -> Infinity

ExactDistance(coordinate, f) == ExactDistanceOf(coordinate, Geometry(f))

\* The features of the tracked set at an exact distance within the tolerance
ExactlyWithin(coordinate, tolerance) ==
    {features[k] : k \in {j \in 1..Len(features) :
        WithinTolerance(ExactDistance(coordinate, features[j]), tolerance)}}

\* C22: detectFeaturesAtCoordinate returns a feature of the indexed set if
\* and only if the exact distance from the query coordinate to its geometry
\* is at most the tolerance: the box search and the decomposition into
\* segments lose no feature and add none.
C22_ResultSetExact ==
    ret.op = "detectFeaturesAtCoordinate"
        => {ret.value[i] : i \in 1..Len(ret.value)}
              = ExactlyWithin(ret.arg[1], ret.arg[2])

\* C22 witness: a query strictly inside a polygon returned the polygon,
\* though every segment of its ring is beyond the tolerance and a segment
\* item of the ring was a candidate.
C22_Witness ==
    /\ ret.op = "detectFeaturesAtCoordinate"
    /\ \E f \in Features :
          /\ Returned(f)
          /\ Geometry(f).type = "Polygon"
          /\ ~WithinTolerance(SegmentsLeast(ret.arg[1], Geometry(f).coords), ret.arg[2])
          /\ \E k \in 1..Len(tree) :
                /\ tree[k].feature = f
                /\ tree[k].seg # <<>>
                /\ Intersects(QueryBox(ret.arg[1], ret.arg[2]), tree[k])

\* The candidates of a query, in the order the search gives them
CandidatesOf(coordinate, tolerance) == TreeSearch(tree, QueryBox(coordinate, tolerance))

\* Candidate k is of feature f and within the tolerance
HitsAt(cands, k, f, coordinate, tolerance) ==
    /\ cands[k].feature = f
    /\ WithinTolerance(CandidateDistance(coordinate, cands[k]), tolerance)

\* The distance of the first candidate of feature f that is within the
\* tolerance
FirstHitDistance(cands, f, coordinate, tolerance) ==
    CandidateDistance(coordinate,
        cands[CHOOSE k \in 1..Len(cands) :
                 /\ HitsAt(cands, k, f, coordinate, tolerance)
                 /\ \A j \in 1..(k - 1) : ~HitsAt(cands, j, f, coordinate, tolerance)])

\* C23 for the hits of a query and its candidates
RankedByFirstHit(hits, cands, coordinate, tolerance) ==
    \A i \in 1..Len(hits) :
        /\ hits[i].distance
              = FirstHitDistance(cands, hits[i].feature, coordinate, tolerance)
        /\ WithinTolerance(hits[i].distance, tolerance)
        /\ DistLeq(ExactDistance(coordinate, hits[i].feature), hits[i].distance)

\* C23: the distance a returned feature is ranked by is the distance of the
\* first of its candidates, in the order of the search, that is within the
\* tolerance; it is at most the tolerance and at least the exact distance
\* of the feature.
C23_RankedByFirstHit ==
    ret.op = "detectFeaturesAtCoordinate"
        => /\ FeaturesOf(detectHits(tree, ret.arg[1], ret.arg[2])) = ret.value
           /\ RankedByFirstHit(detectHits(tree, ret.arg[1], ret.arg[2]),
                               CandidatesOf(ret.arg[1], ret.arg[2]),
                               ret.arg[1], ret.arg[2])

\* Some hit is ranked by a distance strictly greater than the exact
\* distance of its feature
RankedAboveExact(hits, coordinate) ==
    \E i \in 1..Len(hits) :
        DistLess(ExactDistance(coordinate, hits[i].feature), hits[i].distance)

\* C23 witness: a query returned a feature ranked by a distance strictly
\* greater than its exact distance.
C23_Witness ==
    /\ ret.op = "detectFeaturesAtCoordinate"
    /\ ret.value # <<>>
    /\ RankedAboveExact(detectHits(tree, ret.arg[1], ret.arg[2]), ret.arg[1])

\* ------------------------------------------------------------------------
\* Properties of the distance to a segment
\* ------------------------------------------------------------------------
\* Two distances are the same number
SameDistance(a, b) == a[1] * b[2] = b[1] * a[2]

\* (B - A) . (P - A), |B - A|^2 and (B - A) x (P - A)
Dot(p, a, b) == (p[1] - a[1]) * (b[1] - a[1]) + (p[2] - a[2]) * (b[2] - a[2])

Length2(a, b) == (b[1] - a[1]) * (b[1] - a[1]) + (b[2] - a[2]) * (b[2] - a[2])

Cross(p, a, b) == (b[1] - a[1]) * (p[2] - a[2]) - (b[2] - a[2]) * (p[1] - a[1])

\* P lies on the segment from A to B
OnSegment(p, a, b) ==
    /\ Cross(p, a, b) = 0
    /\ Min2(a[1], b[1]) <= p[1] /\ p[1] <= Max2(a[1], b[1])
    /\ Min2(a[2], b[2]) <= p[2] /\ p[2] <= Max2(a[2], b[2])

\* The distance from P to A + t (B - A), t the projection parameter
\* Dot / Length2 clamped to [0, 1]; for 0 < t < 1 it is |Cross| / |B - A|
DistanceToClampedProjection(p, a, b) ==
    IF a = b THEN Hypot(p[1] - a[1], p[2] - a[2])
    ELSE IF Dot(p, a, b) <= 0 THEN Hypot(p[1] - a[1], p[2] - a[2])
    ELSE IF Dot(p, a, b) >= Length2(a, b) THEN Hypot(p[1] - b[1], p[2] - b[2])
    ELSE <<Cross(p, a, b) * Cross(p, a, b), Length2(a, b)>>

\* C24: getDistanceToSegment returns the distance from P to A when A = B,
\* and otherwise the distance from P to the projection of P on the line AB
\* with its parameter clamped to [0, 1]: the distance to A before A, to B
\* after B; it is 0 exactly when P lies on the segment.
C24_SegmentDistance ==
    ret.op = "getDistanceToSegment"
        => /\ SameDistance(ret.value,
                           DistanceToClampedProjection(ret.arg[1], ret.arg[2], ret.arg[3]))
           /\ IsZero(ret.value) <=> OnSegment(ret.arg[1], ret.arg[2], ret.arg[3])
           /\ DistLeq(ret.value, Hypot(ret.arg[1][1] - ret.arg[2][1],
                                       ret.arg[1][2] - ret.arg[2][2]))
           /\ DistLeq(ret.value, Hypot(ret.arg[1][1] - ret.arg[3][1],
                                       ret.arg[1][2] - ret.arg[3][2]))

\* C24 witness: the projection of P falls after B, on a segment that is not
\* a point, and P is not on the line through it.
C24_Witness ==
    /\ ret.op = "getDistanceToSegment"
    /\ ret.arg[2] # ret.arg[3]
    /\ Dot(ret.arg[1], ret.arg[2], ret.arg[3]) > Length2(ret.arg[2], ret.arg[3])
    /\ Cross(ret.arg[1], ret.arg[2], ret.arg[3]) # 0
    /\ ~IsZero(ret.value)

\* ------------------------------------------------------------------------
\* Properties of the tester component
\* ------------------------------------------------------------------------
\* C25: in the tester component no timeout is pending once the cleanup has
\* run, and no debounced callback fires on a disposed map or after the
\* cleanup that followed its call.
C25_NoFireAfterCleanup ==
    /\ map = "disposed" => DOMAIN timers = {}
    /\ ret.op = "fire" => (map = "live" /\ ~ret.cleared)

\* C25 witness: the cleanup ran while the timeout of a second or later
\* pointer move was pending, and the map is disposed of.
C25_Witness ==
    /\ ret.op = "unmount"
    /\ ret.timer > 1
    /\ map = "disposed"
    /\ debounceTimers = EmptyMap

\* ------------------------------------------------------------------------
\* Properties of the timer map and of the statistics
\* ------------------------------------------------------------------------
\* C26: the timer map has an entry for a key if and only if a timeout for
\* that key is pending, and the entry holds the handle of that timeout.
C26_MapAgreesWithTasks ==
    \A k \in Keys :
        /\ k \in DOMAIN debounceTimers <=> \E t \in DOMAIN timers : timers[t].key = k
        /\ k \in DOMAIN debounceTimers
              => /\ debounceTimers[k] \in DOMAIN timers
                 /\ timers[debounceTimers[k]].key = k

\* C27: the features the index items refer to are the tracked features, so
\* getStats() reports at least as many items as features, and no item
\* exactly when it reports no feature.
C27_StatsConsistent ==
    Constructed
        => /\ {tree[i].feature : i \in 1..Len(tree)}
                 = {features[k] : k \in 1..Len(features)}
           /\ getStats.indexedItems >= getStats.features
           /\ getStats.indexedItems = 0 <=> getStats.features = 0

\* C28: a debounced call leaves pending every timeout set by a call whose
\* debounceKey option differs from its own, an omitted key and the empty
\* string, and the empty string and 'default', included.
C28_DistinctKeysDistinctTimers ==
    [][ret'.op = "debounced"
          => \A t \in DOMAIN timers :
                calls[t].debounceKey # ret'.issued[1]
                    => (t \in DOMAIN timers' /\ timers'[t] = timers[t])]_vars

\* ------------------------------------------------------------------------
\* Properties of two instances
\* ------------------------------------------------------------------------
OwnOps == {"debounced", "clearDebounceTimers", "clear", "fire"}

OtherOps == {"other.debounced", "other.clearDebounceTimers", "other.clear",
             "other.fire"}

\* C21: a debounced call, clearDebounceTimers() or clear() on one instance,
\* and the firing of one of its timeouts, leaves the timer map of the other
\* instance and every pending timeout of the other instance as they were,
\* whatever the keys.
C21_TimersPerInstance ==
    [][/\ ret'.op \in OwnOps
            => /\ other'.debounceTimers = other.debounceTimers
               /\ \A t \in (DOMAIN timers) \cap other.handles :
                     t \in DOMAIN timers' /\ timers'[t] = timers[t]
       /\ ret'.op \in OtherOps
            => /\ debounceTimers' = debounceTimers
               /\ \A t \in (DOMAIN timers) \ other.handles :
                     t \in DOMAIN timers' /\ timers'[t] = timers[t]]_vars

\* C21 witness: clearDebounceTimers() on the first instance has just
\* cancelled its timeout for a key while the second instance holds a
\* pending timeout for the same key.
C21_Witness ==
    /\ ret.op = "clearDebounceTimers"
    /\ DOMAIN debounceTimers = {}
    /\ nextTimer > 2
    /\ \E t \in DOMAIN timers, u \in 1..MaxTimers :
          /\ t \in other.handles
          /\ other.debounceTimers[timers[t].key] = t
          /\ u \notin other.handles
          /\ u < nextTimer
          /\ u \notin DOMAIN timers
          /\ u > t

=============================================================================
